---- MODULE Spec2Model ----
(***************************************************************************)
(* A model of the urnadb storage core (vfs.LogStructuredFS), its segment   *)
(* codec and pipeline, and the lease-lock service built on it.             *)
(***************************************************************************)
EXTENDS Integers, Sequences, FiniteSets, TLC

(***************************************************************************)
(* Bounds of the model.                                                    *)
(***************************************************************************)
\* total number of records the region files may hold
MaxLog == 2
\* number of OpenFS calls on the directory
MaxSessions == 3
\* number of one-second clock ticks
MaxTicks == 1
\* region size threshold in bytes (Options.Threshold * gb in the program)
regionThreshold == 36
\* byte length of a serialized value before the pipeline
PlainLen == 1
\* number of writes of a single-session run
MaxWrites == 3
\* number of goroutines calling into the store at once
MaxThreads == 3
\* sync.Mutex objects the lease service allocates, and records its calls write
MaxMutexes == 3
MaxMutexLog == 3
\* tickers RunCheckpoint creates, and records written beside the checkpointer
MaxTickers == 2
MaxCkptLog == 2
MaxFailures == 1
\* records written by the variant service and its callers
MaxVariantLog == 3
\* records written while the pipeline is reconfigured
MaxPipeLog == 3
\* number of writes before and after a compaction run
MaxGCWrites == 5
\* number of AcquireLeaseLock calls on the pool
MaxAcquires == 12
\* number of times a client runs the lease lifecycle
MaxRounds == 2
\* width in bits of the mvcc counter (64 in the program)
MvccBits == 2
\* number of records a run of compare-and-swap updates may write
MaxCasLog == 5
\* number of records the table service may write
MaxTableLog == 4
\* highest row id a table of the model holds
MaxRows == 3
\* number of goroutines that call into the store step by step
MaxWorkers == 2
\* number of calls each of them makes
MaxCalls == 2
\* number of records their calls may write
MaxParLog == 3
\* number of records written before a compaction run that has company
MaxMoveLog == 5
\* number of calls a goroutine makes beside the compaction run
MaxMoveCalls == 1

(***************************************************************************)
(* Program constants.                                                      *)
(***************************************************************************)
SEGMENT_PADDING == 26
\* the number of bytes recoveryIndex reads per index record
INDEX_SEGMENT_SIZE == 49
\* len(dataFileMetadata)
MetadataLen == 4
\* trailing crc32
CrcLen == 4
ImmortalTTL == -1
shard == 10
\* time.Now().UnixMicro() units per second
MicrosPerSecond == 1000000
\* time.Second as a Duration (nanoseconds), the divisor used by ExpiresIn
DurationSecond == 1000000000
\* aes.BlockSize
AesBlock == 16
\* bytes snappy adds to a short incompressible block (length varint + literal tag)
SnappyOverhead == 2
\* the number of lease objects init puts into the pool
PoolPrefill == 10
\* the empty token "", held as a number no ULID takes
nullString == -1
\* the ttl in seconds DoLeaseLock gives the renewal of an immortal lease
DefaultLeaseTTL == 10
\* time.Microsecond as a Duration (nanoseconds), the divisor DoLeaseLock uses
DurationMicrosecond == 1000

Keys == {"a", "b"}
Threads == 1..MaxThreads
\* ttl arguments in seconds: immortal, or one second
TTLs == {ImmortalTTL, 1}
\* the pipeline configurations: flags of vfs.Pipeline
Configs == {{}, {"compress"}, {"encrypt"}, {"compress", "encrypt"}}

VARIABLES
    files,        \* region id -> [recs: sequence of [pos, seg]]: bytes of every data file
    dir,          \* ids of the data files linked in the directory
    indexdb,      \* the index.db snapshot file: [exists, recs]
    ckpts,        \* the ckpt.<ts>.<rid>.ids files: set of [ts, rid, recs]
    index,        \* lfs.indexs, all shards: inum -> inode
    regions,      \* lfs.regions: ids of the open region files
    regionID,     \* lfs.regionID, the id of lfs.active
    offset,       \* lfs.offset
    transformer,  \* flags of the process-wide pipeline
    now,          \* time.Now().UnixMicro(); a microsecond passes with every record written
    running,      \* TRUE while a process has the store open
    session,      \* number of OpenFS calls so far, how the last one ended, what recovered
    acked,        \* per key, the last acknowledged write
    pc,           \* per goroutine, where it stands in its call
    locks,        \* holders of lfs.mu and of every imap.mu (0 when free)
    call,         \* per goroutine, the arguments of its call
    ret,          \* per goroutine, what its last call returned
    grants,       \* the leases AcquireLock has handed out
    leaseLockPools, \* types.leaseLockPools: the lease objects in the pool
    leases,       \* what AcquireLeaseLock has returned to its callers so far
    trace,        \* the results of the calls made so far, in the order of their return
    local,        \* per goroutine, the local variables of its call
    gen           \* per inum, the number of inode objects PutSegment has allocated

vars == <<files, dir, indexdb, ckpts, index, regions, regionID, offset,
          transformer, now, running, session, acked, pc, locks, call, ret, grants,
          leaseLockPools, leases, trace, local, gen>>

typeVars == <<leaseLockPools, leases, trace>>
goVars == <<local, gen>>
procVars == <<pc, locks, call, ret, grants, typeVars, goVars>>

diskVars == <<files, dir, indexdb, ckpts>>
memVars == <<index, regions, regionID, offset>>

(***************************************************************************)
(* Maps.                                                                   *)
(***************************************************************************)
MapPut(m, k, v) == [x \in (DOMAIN m) \cup {k} |-> IF x = k THEN v ELSE m[x]]
MapDel(m, k) == [x \in (DOMAIN m) \ {k} |-> m[x]]
EmptyMap == [x \in {} |-> 0]
Max(S) == CHOOSE x \in S : \A y \in S : y <= x

(***************************************************************************)
(* inodeNum: murmur3.Sum64 of the key, injective on the keys of the model. *)
(***************************************************************************)
inodeNum(key) == IF key = "a" THEN 1 ELSE 2
ShardOf(inum) == inum % shard

(***************************************************************************)
(* Pipeline.  A payload is a body under a stack of encodings, the          *)
(* outermost last.  Encode compresses, then encrypts; Decode decrypts,     *)
(* then decompresses, and fails on bytes that were not encoded that way.   *)
(***************************************************************************)
Plain(body) == [layers |-> <<>>, body |-> body, ok |-> TRUE]
Corrupt == [layers |-> <<>>, body |-> 0, ok |-> FALSE]
EmptyValue == [layers |-> <<>>, body |-> 0, ok |-> TRUE]

Push(d, tag) == [d EXCEPT !.layers = Append(d.layers, tag)]
Top(d) == IF Len(d.layers) = 0 THEN "none" ELSE d.layers[Len(d.layers)]
Pop(d) == [d EXCEPT !.layers = SubSeq(d.layers, 1, Len(d.layers) - 1)]

Compress(d) == Push(d, "snappy")
Decompress(d) == IF d.ok /\ Top(d) = "snappy" THEN Pop(d) ELSE Corrupt
Encrypt(d) == Push(d, "aes")
Decrypt(d) == IF d.ok /\ Top(d) = "aes" THEN Pop(d) ELSE Corrupt

Encode(flags, d) ==
    LET c == IF "compress" \in flags THEN Compress(d) ELSE d
    IN  IF "encrypt" \in flags THEN Encrypt(c) ELSE c

Decode(flags, d) ==
    LET p == IF "encrypt" \in flags THEN Decrypt(d) ELSE d
    IN  IF "compress" \in flags THEN Decompress(p) ELSE p

RECURSIVE LayersLen(_, _)
LayersLen(layers, n) ==
    IF Len(layers) = 0 THEN n
    ELSE LayersLen(Tail(layers),
                   IF Head(layers) = "snappy" THEN n + SnappyOverhead
                   ELSE AesBlock + (n - (n % AesBlock)) + AesBlock)

\* len(bytes) of a payload
DataLen(d) == IF d = EmptyValue THEN 0 ELSE LayersLen(d.layers, PlainLen)

(***************************************************************************)
(* Segments.                                                               *)
(***************************************************************************)
\* NewSegment / AcquirePoolSegment: the value is pipeline-encoded, ttl <= 0 is immortal
NewSegment(key, body, ttl, typ, flags, t) ==
    LET encodedata == Encode(flags, Plain(body))
    IN  [Tombstone |-> 0, Type |-> typ,
         ExpiredAt |-> IF ttl > 0 THEN t + ttl * MicrosPerSecond ELSE ImmortalTTL,
         CreatedAt |-> t, Key |-> key,
         ValueSize |-> DataLen(encodedata), Value |-> encodedata]

NewTombstoneSegment(key, t) ==
    [Tombstone |-> 1, Type |-> "unknown", ExpiredAt |-> 0, CreatedAt |-> t,
     Key |-> key, ValueSize |-> 0, Value |-> EmptyValue]

IsTombstone(seg) == seg.Tombstone = 1

\* Segment.Size: computed from the header fields
Size(seg) == SEGMENT_PADDING + Len(seg.Key) + seg.ValueSize + CrcLen

\* len(serializedSegment(seg)): the header, the key, every byte of Value, the crc
SerializedLen(seg) == SEGMENT_PADDING + Len(seg.Key) + DataLen(seg.Value) + CrcLen

\* Segment.ExpiresIn: (ok) is FALSE when the segment counts as expired
ExpiresIn(seg, t) ==
    IF seg.ExpiredAt > 0 /\ seg.ExpiredAt > t
    THEN ((seg.ExpiredAt - t) \div DurationSecond) > 0
    ELSE TRUE

(***************************************************************************)
(* Data files.                                                             *)
(***************************************************************************)
EmptyFile == [recs |-> <<>>]

FileSize(f) ==
    IF Len(f.recs) = 0 THEN MetadataLen
    ELSE f.recs[Len(f.recs)].pos + SerializedLen(f.recs[Len(f.recs)].seg)

\* appendToActiveRegion: the file is opened O_APPEND, the bytes land at its end
appendToActiveRegion(fs, rid, seg) ==
    [fs EXCEPT ![rid].recs = Append(@, [pos |-> FileSize(fs[rid]), seg |-> seg])]

HasRecAt(f, pos) == \E i \in 1..Len(f.recs) : f.recs[i].pos = pos
RecAt(f, pos) == f.recs[CHOOSE i \in 1..Len(f.recs) : f.recs[i].pos = pos].seg

\* readSegment: header, key, ValueSize bytes of value and crc at the offset; the
\* crc is verified and the value is pipeline-decoded
readSegment(fs, rid, pos, flags) ==
    IF ~HasRecAt(fs[rid], pos) THEN [err |-> "read", seg |-> NewTombstoneSegment("a", 0)]
    ELSE LET raw == RecAt(fs[rid], pos)
             decodedData == Decode(flags, raw.Value)
         IN  IF raw.ValueSize # DataLen(raw.Value)
             THEN [err |-> "crc", seg |-> raw]
             ELSE IF ~decodedData.ok
             THEN [err |-> "decode", seg |-> raw]
             ELSE [err |-> "ok", seg |-> [raw EXCEPT !.Value = decodedData]]

(***************************************************************************)
(* Index records.                                                          *)
(***************************************************************************)
serializedIndex(inum, inode) ==
    [inum |-> inum, RegionID |-> inode.RegionID, Position |-> inode.Position,
     Length |-> inode.Length, ExpiredAt |-> inode.ExpiredAt,
     CreatedAt |-> inode.CreatedAt, Type |-> inode.Type]

\* a faulty reader that takes the length field for the position
deserializedIndexSwapped(r) ==
    [RegionID |-> r.RegionID, Position |-> r.Length, ExpiredAt |-> r.ExpiredAt,
     CreatedAt |-> r.CreatedAt, mvcc |-> 0, Length |-> r.Position, Type |-> r.Type]

deserializedIndex(r) ==
    [RegionID |-> r.RegionID, Position |-> r.Position, ExpiredAt |-> r.ExpiredAt,
     CreatedAt |-> r.CreatedAt, mvcc |-> 0, Length |-> r.Length, Type |-> r.Type]

\* the records ExportSnapshotIndex and the checkpointer write for an index
IndexRecords(idx) == {serializedIndex(i, idx[i]) : i \in DOMAIN idx}

\* a faulty serializedIndex that leaves the type byte out
IndexFieldLensNoType == <<8, 8, 8, 4, 8, 8, 4>>

\* the bytes serializedIndex writes per field: inum, RegionID, Position,
\* Length, ExpiredAt, CreatedAt, Type and the crc32
IndexFieldLens == <<8, 8, 8, 4, 8, 8, 1, 4>>

RECURSIVE SumSeq(_)
SumSeq(q) == IF Len(q) = 0 THEN 0 ELSE Head(q) + SumSeq(Tail(q))

\* len(serializedIndex(buf, inum, inode))
SerializedIndexLen == SumSeq(IndexFieldLens)

\* the layout of an index file: the records one after the other behind the
\* 4-byte header, as [pos, rec]
RECURSIVE IndexFileRecs(_, _)
IndexFileRecs(recs, pos) ==
    IF recs = {} THEN <<>>
    ELSE LET r == CHOOSE x \in recs : \A y \in recs : x.inum <= y.inum
         IN  <<[pos |-> pos, rec |-> r]>> \o IndexFileRecs(recs \ {r}, pos + SerializedIndexLen)

IndexFileSize(recs) == MetadataLen + Cardinality(recs) * SerializedIndexLen

\* the read loop of recoveryIndex from offset off on: [err, recs].  ReadAt fails
\* when fewer than INDEX_SEGMENT_SIZE bytes are left; deserializedIndex fails
\* on the crc unless the buffer holds one whole record.
RECURSIVE ReadIndexFrom(_, _, _, _)
ReadIndexFrom(f, size, off, acc) ==
    IF off >= size THEN [err |-> "ok", recs |-> acc]
    ELSE IF off + INDEX_SEGMENT_SIZE > size THEN [err |-> "read", recs |-> acc]
    ELSE IF SerializedIndexLen # INDEX_SEGMENT_SIZE
            \/ ~\E i \in 1..Len(f) : f[i].pos = off
    THEN [err |-> "crc", recs |-> acc]
    ELSE ReadIndexFrom(f, size, off + INDEX_SEGMENT_SIZE,
                       acc \cup {f[CHOOSE i \in 1..Len(f) : f[i].pos = off].rec})

\* what recoveryIndex reads from an index file holding the records recs
ReadIndexRecords(recs) ==
    ReadIndexFrom(IndexFileRecs(recs, MetadataLen), IndexFileSize(recs), MetadataLen, {})

\* the expiry test of FetchSegment, the sweeps and recoveryIndex
IsExpired(eat, t) == eat > 0 /\ eat <= t

(***************************************************************************)
(* The store of one process, as a value: st.files, st.dir, st.index,       *)
(* st.regions, st.regionID, st.offset.  Every operation below is the       *)
(* whole call, run with no other call in between.                          *)
(***************************************************************************)
Store == [files |-> files, dir |-> dir, index |-> index, regions |-> regions,
          regionID |-> regionID, offset |-> offset]

SetStore(st) ==
    /\ files' = st.files
    /\ dir' = st.dir
    /\ index' = st.index
    /\ regions' = st.regions
    /\ regionID' = st.regionID
    /\ offset' = st.offset

NewInode(rid, pos, seg) ==
    [RegionID |-> rid, Position |-> pos, ExpiredAt |-> seg.ExpiredAt,
     CreatedAt |-> seg.CreatedAt, mvcc |-> 0, Length |-> Size(seg), Type |-> seg.Type]

createActiveRegion(st) ==
    [st EXCEPT !.regionID = st.regionID + 1,
               !.files = MapPut(st.files, st.regionID + 1, EmptyFile),
               !.dir = st.dir \cup {st.regionID + 1},
               !.offset = MetadataLen,
               !.regions = st.regions \cup {st.regionID + 1}]

\* PutSegment with mvcc 0 in the new inode, as the program has it
PutSegment(st, key, seg) ==
    LET inum == inodeNum(key)
        s1 == [st EXCEPT !.files = appendToActiveRegion(st.files, st.regionID, seg),
                         !.index = MapPut(st.index, inum,
                                          NewInode(st.regionID, st.offset, seg)),
                         !.offset = st.offset + Size(seg)]
    IN  IF s1.offset >= regionThreshold THEN createActiveRegion(s1) ELSE s1

DeleteSegment(st, key, t) ==
    LET seg == NewTombstoneSegment(key, t)
    IN  [st EXCEPT !.files = appendToActiveRegion(st.files, st.regionID, seg),
                   !.offset = st.offset + Size(seg),
                   !.index = MapDel(st.index, inodeNum(key))]

\* HasSegment: the inode is in the shard and now < ExpiredAt, with no test for
\* ExpiredAt > 0
HasSegment(st, key, t) ==
    /\ inodeNum(key) \in DOMAIN st.index
    /\ t < st.index[inodeNum(key)].ExpiredAt

\* a faulty FetchSegment that reports the expiry and leaves the inode in place
FetchSegmentKeepsInode(st, key, t, flags) ==
    LET inum == inodeNum(key)
        none == NewTombstoneSegment(key, 0)
    IN  IF inum \notin DOMAIN st.index
        THEN [st |-> st, err |-> "notfound", mvcc |-> 0, seg |-> none]
        ELSE LET inode == st.index[inum] IN
             IF IsExpired(inode.ExpiredAt, t)
             THEN [st |-> st, err |-> "expired", mvcc |-> 0, seg |-> none]
             ELSE IF inode.RegionID \notin st.regions
             THEN [st |-> st, err |-> "noregion", mvcc |-> 0, seg |-> none]
             ELSE LET r == readSegment(st.files, inode.RegionID, inode.Position, flags)
                  IN  IF r.err # "ok"
                      THEN [st |-> st, err |-> r.err, mvcc |-> 0, seg |-> none]
                      ELSE [st |-> st, err |-> "ok", mvcc |-> inode.mvcc, seg |-> r.seg]

\* FetchSegment: [st, err, mvcc, seg]
FetchSegment(st, key, t, flags) ==
    LET inum == inodeNum(key)
        none == NewTombstoneSegment(key, 0)
    IN  IF inum \notin DOMAIN st.index
        THEN [st |-> st, err |-> "notfound", mvcc |-> 0, seg |-> none]
        ELSE LET inode == st.index[inum] IN
             IF IsExpired(inode.ExpiredAt, t)
             THEN [st |-> [st EXCEPT !.index = MapDel(st.index, inum)],
                   err |-> "expired", mvcc |-> 0, seg |-> none]
             ELSE IF inode.RegionID \notin st.regions
             THEN [st |-> st, err |-> "noregion", mvcc |-> 0, seg |-> none]
             ELSE LET r == readSegment(st.files, inode.RegionID, inode.Position, flags)
                  IN  IF r.err # "ok"
                      THEN [st |-> st, err |-> r.err, mvcc |-> 0, seg |-> none]
                      ELSE [st |-> st, err |-> "ok", mvcc |-> inode.mvcc, seg |-> r.seg]

\* math.MaxUint64: the largest value of the mvcc counter
MaxUint64 == 2 ^ MvccBits - 1

\* UpdateSegmentWithCAS: [st, err]
UpdateSegmentWithCAS(st, key, expected, newseg, t) ==
    LET inum == inodeNum(key) IN
    IF ~ExpiresIn(newseg, t) THEN [st |-> st, err |-> "expired"]
    ELSE IF inum \notin DOMAIN st.index THEN [st |-> st, err |-> "notfound"]
    ELSE IF st.index[inum].mvcc # expected THEN [st |-> st, err |-> "conflict"]
    ELSE LET moved == [st.index[inum] EXCEPT !.CreatedAt = newseg.CreatedAt,
                                             !.ExpiredAt = newseg.ExpiredAt,
                                             !.RegionID = st.regionID,
                                             !.Length = Size(newseg),
                                             !.Position = st.offset]
             s1 == [st EXCEPT !.files = appendToActiveRegion(st.files, st.regionID, newseg),
                              !.index = MapPut(st.index, inum, moved)]
         IN  IF moved.mvcc = MaxUint64 THEN [st |-> s1, err |-> "overflow"]
             ELSE [st |-> [s1 EXCEPT !.index = MapPut(s1.index, inum,
                                                     [moved EXCEPT !.mvcc = moved.mvcc + 1]),
                                     !.offset = s1.offset + Size(newseg)],
                   err |-> "ok"]

\* one pass of expireLoop over all shards
expireLoop(st, t) ==
    [st EXCEPT !.index = [i \in {j \in DOMAIN st.index :
                                    ~IsExpired(st.index[j].ExpiredAt, t)} |-> st.index[i]]]

(***************************************************************************)
(* Recovery.                                                               *)
(***************************************************************************)
\* recoveryIndex: every record read from an index file that is not expired
recoveryIndex(recs, idx, t) ==
    LET keep == {r \in ReadIndexRecords(recs).recs : ~IsExpired(r.ExpiredAt, t)}
        inums == {r.inum : r \in keep}
    IN  [i \in (DOMAIN idx) \cup inums |->
            IF i \in inums THEN deserializedIndex(CHOOSE r \in keep : r.inum = i)
            ELSE idx[i]]

\* the expiry test of crashRecoveryAllIndex
CrashScanSkips(seg, t) == seg.ExpiredAt > 0 /\ seg.ExpiredAt <= t

\* the expiry test of the forward scan of scanAndRecoverCheckpoint
CheckpointScanSkips(seg, t) == seg.ExpiredAt <= t /\ seg.ExpiredAt # 0

ScannedInode(rid, pos, seg) ==
    [RegionID |-> rid, Position |-> pos, ExpiredAt |-> seg.ExpiredAt,
     CreatedAt |-> seg.CreatedAt, mvcc |-> 0, Length |-> Size(seg), Type |-> "set"]

\* what one turn of the scan loop does to the index with the segment read at pos
ScannedRecord(idx, rid, pos, seg, t, checkpoint) ==
    IF IsTombstone(seg) THEN MapDel(idx, inodeNum(seg.Key))
    ELSE IF (IF checkpoint THEN CheckpointScanSkips(seg, t) ELSE CrashScanSkips(seg, t))
    THEN idx
    ELSE MapPut(idx, inodeNum(seg.Key), ScannedInode(rid, pos, seg))

\* the loop over one region file, from pos to its end: [err, index]; r is what
\* readSegment returned at pos
RECURSIVE ScanRegion(_, _, _, _, _, _, _)
ScanFrom(fs, rid, pos, idx, t, flags, checkpoint, r) ==
    IF r.err # "ok" THEN [err |-> "scan", index |-> idx]
    ELSE ScanRegion(fs, rid, pos + Size(r.seg),
                    ScannedRecord(idx, rid, pos, r.seg, t, checkpoint), t, flags, checkpoint)

ScanRegion(fs, rid, pos, idx, t, flags, checkpoint) ==
    IF pos >= FileSize(fs[rid]) THEN [err |-> "ok", index |-> idx]
    ELSE ScanFrom(fs, rid, pos, idx, t, flags, checkpoint, readSegment(fs, rid, pos, flags))

\* the loop over the region ids in ascending order, stopped by the first
\* error; acc is [err, index] so far
RECURSIVE ScanRegions(_, _, _, _, _, _)
ScanRegions(fs, ids, acc, t, flags, checkpoint) ==
    IF ids = {} \/ acc.err # "ok" THEN acc
    ELSE LET rid == CHOOSE x \in ids : \A y \in ids : x <= y
         IN  ScanRegions(fs, ids \ {rid},
                         ScanRegion(fs, rid, MetadataLen, acc.index, t, flags, checkpoint),
                         t, flags, checkpoint)

crashRecoveryAllIndex(fs, rids, idx, t, flags) ==
    ScanRegions(fs, rids, [err |-> "ok", index |-> idx], t, flags, FALSE)

\* the newest checkpoint, then the regions from its region id on
scanAndRecoverCheckpoint(cks, fs, rids, idx, t, flags) ==
    LET ck == CHOOSE c \in cks : \A d \in cks : d.ts <= c.ts
    IN  ScanRegions(fs, {id \in rids : id >= ck.rid},
                    [err |-> ReadIndexRecords(ck.recs).err,
                     index |-> recoveryIndex(ck.recs, idx, t)], t, flags, TRUE)

\* scanAndRecoverRegions on a fresh instance: [files, dir, index, regions, regionID, offset]
scanAndRecoverRegions(fs, d) ==
    LET st0 == [files |-> fs, dir |-> d, index |-> EmptyMap, regions |-> d,
                regionID |-> 0, offset |-> MetadataLen]
    IN  IF d = {} THEN createActiveRegion(st0)
        ELSE IF FileSize(fs[Max(d)]) >= regionThreshold
             THEN createActiveRegion([st0 EXCEPT !.regionID = Max(d)])
             ELSE [st0 EXCEPT !.regionID = Max(d), !.offset = FileSize(fs[Max(d)])]

\* the instance with the index a recovery path r = [err, index] built
Recovered(st, r, via) == [err |-> r.err, st |-> [st EXCEPT !.index = r.index], via |-> via]

\* scanAndRecoverIndexs: [err, st, via]
scanAndRecoverIndexs(st, idb, cks, t, flags) ==
    IF idb.exists
    THEN Recovered(st, [err |-> ReadIndexRecords(idb.recs).err,
                        index |-> recoveryIndex(idb.recs, st.index, t)],
                   "snapshot")
    ELSE IF Cardinality(st.regions) >= 2 /\ cks # {}
    THEN Recovered(st, scanAndRecoverCheckpoint(cks, st.files, st.regions, st.index, t, flags),
                   "checkpoint")
    ELSE Recovered(st, crashRecoveryAllIndex(st.files, st.regions, st.index, t, flags), "scan")

\* OpenFS: [err, st, via]
OpenFS(fs, d, idb, cks, t, flags) ==
    scanAndRecoverIndexs(scanAndRecoverRegions(fs, d), idb, cks, t, flags)

\* ExportSnapshotIndex: index.db is truncated and rewritten
ExportSnapshotIndex(idx) == [exists |-> TRUE, recs |-> IndexRecords(idx)]

\* one run of the checkpointer body: the new ckpt file replaces the older ones
Checkpointed(st, cks, t) ==
    IF Cardinality(st.regions) >= 2
    THEN {[ts |-> t \div MicrosPerSecond, rid |-> st.regionID, recs |-> IndexRecords(st.index)]}
    ELSE cks

(***************************************************************************)
(* Lease objects (types.LeaseLock) and their pool.  A token is a number:   *)
(* the k-th ULID the process generated, or nullString.  The pool holds     *)
(* objects that still carry the ULID init gave them (filled) and objects   *)
(* whose token Clear has emptied (cleared); sync.Pool hands out any of     *)
(* them, and calls New only when it holds none.                            *)
(***************************************************************************)
\* init: ten objects made by NewLeaseLock, each with its own ULID
NewPool == [filled |-> PoolPrefill, cleared |-> 0]

\* the ULID of the next filled object the pool hands out
NextULID(pool) == PoolPrefill - pool.filled + 1

\* AcquireLeaseLock: leaseLockPools.Get() and nothing else; the outcomes
\* [pool, token] the pool allows
AcquireLeaseLock(pool) ==
    {[pool |-> [pool EXCEPT !.filled = @ - 1], token |-> NextULID(pool)] :
        x \in {y \in {1} : pool.filled > 0}}
    \cup {[pool |-> [pool EXCEPT !.cleared = @ - 1], token |-> nullString] :
        x \in {y \in {1} : pool.cleared > 0}}
    \cup {[pool |-> pool, token |-> nullString] :
        x \in {y \in {1} : pool.filled = 0 /\ pool.cleared = 0}}

\* LeaseLock.ReleaseToPool: Clear, then Put
ReleaseToPool(pool) == [pool EXCEPT !.cleared = @ + 1]

\* lfs.checkpointWorker (0: nil), the tickers made so far, the stopped ones,
\* and the ticks waiting in the channel of each ticker (it buffers one)
NoCheckpointer == [checkpointWorker |-> 0, made |-> 0, stopped |-> {},
                   C |-> [tk \in 1..MaxTickers |-> 0]]

NoLeases == [held |-> 0, issued |-> {}, n |-> 0, fresh |-> TRUE]

(***************************************************************************)
(* Sessions: one caller at a time puts, deletes, updates and reads; the    *)
(* process closes the store or is killed; the directory is opened again.   *)
(***************************************************************************)
NoIndexFile == [exists |-> FALSE, recs |-> {}]
NoCall == [op |-> "none", key |-> "a", arg |-> 0, was |-> 0]
NoWrite == [kind |-> "none", val |-> 0, eat |-> 0, sess |-> 0, late |-> 0]
\* what a goroutine has of its last FetchSegment: the key, the mvcc and the
\* value returned, the key of the record read, and the number of inode
\* objects allocated for the key by then
NoFetch == [key |-> "none", mvcc |-> 0, val |-> 0, rkey |-> "none", gen |-> 0]
\* the locals of a goroutine that is in no call: the segment it passes, the
\* inode pointer it looked up (the number of the object, 0 for none) and what
\* the object held when it left the index, the region id it loaded, the lock
\* and unlock calls of its last call, the number of inode objects allocated
\* for its key when the call started, the number of calls it has made, the
\* result of its last FetchSegment, and, of a compaction run, the dirty
\* regions still to clean and the scan offset
NoLocal == [seg |-> NewTombstoneSegment("a", 0), ptr |-> 0,
            ino |-> NewInode(0, 0, NewTombstoneSegment("a", 0)), rid |-> 0,
            lk |-> <<>>, began |-> 0, n |-> 0, got |-> NoFetch,
            dirty |-> {}, readOffset |-> 0, at |-> 0, mtx |-> 0,
            chkptState |-> FALSE, tk |-> 0]

\* records in the data files of the directory
LogLen == LET n[S \in SUBSET dir] ==
                  IF S = {} THEN 0
                  ELSE LET x == CHOOSE y \in S : TRUE
                       IN  Len(files[x].recs) + n[S \ {x}]
          IN  n[dir]

\* the body a fetched segment carries, 0 when it is not a decoded payload
BodyOf(seg) == IF seg.Value.ok /\ Len(seg.Value.layers) = 0 THEN seg.Value.body ELSE 0

Init ==
    /\ transformer \in Configs
    /\ now = MicrosPerSecond
    /\ \E o \in {OpenFS(EmptyMap, {}, NoIndexFile, {}, now, transformer)} :
           /\ files = o.st.files
           /\ dir = o.st.dir
           /\ index = o.st.index
           /\ regions = o.st.regions
           /\ regionID = o.st.regionID
           /\ offset = o.st.offset
    /\ indexdb = NoIndexFile
    /\ ckpts = {}
    /\ running = TRUE
    /\ session = [count |-> 1, ended |-> "none", via |-> "scan", ckpt |-> NoCheckpointer]
    /\ acked = [k \in Keys |-> NoWrite]
    /\ pc = [t \in Threads |-> "idle"]
    /\ locks = [mu |-> 0, imap |-> [i \in {ShardOf(inodeNum(k)) : k \in Keys} |-> 0],
                lease |-> [k \in Keys |-> 0], holder |-> [m \in 1..MaxMutexes |-> 0],
                made |-> 0]
    /\ call = [t \in Threads |-> NoCall]
    /\ ret = [t \in Threads |-> "none"]
    /\ grants = {}
    /\ leaseLockPools = NewPool
    /\ leases = NoLeases
    /\ trace = <<>>
    /\ local = [t \in Threads |-> NoLocal]
    /\ gen = [i \in {inodeNum(k) : k \in Keys} |-> 0]

Wrote(key, body, eat) ==
    [acked EXCEPT ![key] = [kind |-> "put", val |-> body, eat |-> eat,
                            sess |-> session.count, late |-> 0]]

Put(key, body, ttl, cap) ==
    /\ running /\ LogLen < cap
    /\ \E seg \in {NewSegment(key, body, ttl, "record", transformer, now)} :
           /\ SetStore(PutSegment(Store, key, seg))
           /\ acked' = Wrote(key, body, seg.ExpiredAt)
    /\ now' = now + 1
    /\ UNCHANGED <<indexdb, ckpts, transformer, running, session>>
    /\ UNCHANGED procVars

Delete(key, cap) ==
    /\ running /\ LogLen < cap
    /\ SetStore(DeleteSegment(Store, key, now))
    /\ acked' = [acked EXCEPT ![key] = [NoWrite EXCEPT !.kind = "del", !.sess = session.count]]
    /\ now' = now + 1
    /\ UNCHANGED <<indexdb, ckpts, transformer, running, session>>
    /\ UNCHANGED procVars

UpdateCAS(key, expected, body, ttl, cap) ==
    /\ running /\ LogLen < cap
    /\ \E newseg \in {NewSegment(key, body, ttl, "record", transformer, now)} :
       \E r \in {UpdateSegmentWithCAS(Store, key, expected, newseg, now)} :
           /\ SetStore(r.st)
           /\ acked' = IF r.err = "ok" THEN Wrote(key, body, newseg.ExpiredAt) ELSE acked
           /\ now' = IF r.st.files # files THEN now + 1 ELSE now
    /\ UNCHANGED <<indexdb, ckpts, transformer, running, session>>
    /\ UNCHANGED procVars

\* FetchSegment by a caller; late records, for a key whose acknowledged put has
\* expired, what the first fetch at or after the expiry returned: 1 for the
\* expired error, 2 for anything else
Fetch(key) ==
    /\ running
    /\ \E r \in {FetchSegment(Store, key, now, transformer)} :
           /\ SetStore(r.st)
           /\ acked' = IF acked[key].kind = "put" /\ IsExpired(acked[key].eat, now)
                          /\ acked[key].late = 0
                       THEN [acked EXCEPT ![key].late = IF r.err = "expired" THEN 1 ELSE 2]
                       ELSE acked
    /\ UNCHANGED <<indexdb, ckpts, transformer, now, running, session>>
    /\ UNCHANGED procVars

Tick ==
    /\ now < (1 + MaxTicks) * MicrosPerSecond
    /\ now' = now + MicrosPerSecond
    /\ UNCHANGED <<diskVars, memVars, transformer, running, session, acked>>
    /\ UNCHANGED procVars

Sweep ==
    /\ running
    /\ SetStore(expireLoop(Store, now))
    /\ UNCHANGED <<indexdb, ckpts, transformer, now, running, session, acked>>
    /\ UNCHANGED procVars

Checkpoint ==
    /\ running
    /\ ckpts' = Checkpointed(Store, ckpts, now)
    /\ UNCHANGED <<files, dir, indexdb, memVars, transformer, now, running, session, acked>>
    /\ UNCHANGED procVars

Forget ==
    /\ index' = EmptyMap
    /\ regions' = {}
    /\ regionID' = 0
    /\ offset' = MetadataLen
    /\ running' = FALSE

CloseFS ==
    /\ running
    /\ indexdb' = ExportSnapshotIndex(index)
    /\ Forget
    /\ session' = [session EXCEPT !.ended = "close"]
    /\ UNCHANGED <<files, dir, ckpts, transformer, now, acked>>
    /\ UNCHANGED procVars

Crash ==
    /\ running
    /\ Forget
    /\ session' = [session EXCEPT !.ended = "crash"]
    /\ UNCHANGED <<files, dir, indexdb, ckpts, transformer, now, acked>>
    /\ UNCHANGED procVars

Open ==
    /\ ~running /\ session.count < MaxSessions
    /\ \E o \in {OpenFS(files, dir, indexdb, ckpts, now, transformer)} :
           /\ o.err = "ok"
           /\ SetStore(o.st)
           /\ session' = [session EXCEPT !.count = @ + 1, !.via = o.via,
                                         !.ckpt = NoCheckpointer]
    /\ running' = TRUE
    /\ UNCHANGED <<indexdb, ckpts, transformer, now, acked>>
    /\ UNCHANGED procVars

Next ==
    \/ \E key \in Keys, ttl \in TTLs : Put(key, LogLen + 1, ttl, MaxLog)
    \/ \E key \in Keys : Delete(key, MaxLog)
    \/ \E key \in Keys, expected \in 0..1 : UpdateCAS(key, expected, LogLen + 1, ImmortalTTL, MaxLog)
    \/ Tick
    \/ Sweep
    \/ Checkpoint
    \/ CloseFS
    \/ Crash
    \/ Open

Spec == Init /\ [][Next]_vars

(***************************************************************************)
(* Claims about sessions.                                                  *)
(***************************************************************************)
\* what FetchSegment returns for the key in the current state
Fetched(key) == FetchSegment(Store, key, now, transformer)

\* the key's last acknowledged write is a put that has not expired
AckedLive(key) == acked[key].kind = "put" /\ ~IsExpired(acked[key].eat, now)

ReturnsAcked(key) == Fetched(key).err = "ok" /\ BodyOf(Fetched(key).seg) = acked[key].val

\* C2: after a PutSegment(k, v) that was followed by CloseFS and a new OpenFS,
\* FetchSegment(k) returns v, unless k was overwritten or deleted in between or
\* has expired.
C2_PutSurvivesClose ==
    (running /\ session.ended = "close") =>
        \A k \in Keys :
            (AckedLive(k) /\ acked[k].sess = session.count - 1) => ReturnsAcked(k)

C2_Witness ==
    /\ running /\ session.ended = "close" /\ session.via = "snapshot"
    /\ \E k \in Keys : AckedLive(k) /\ acked[k].sess = session.count - 1 /\ ReturnsAcked(k)

\* C3: after a crash, whatever the earlier history of the directory, reopening
\* yields the acknowledged state: every key whose last acknowledged write is
\* an unexpired put is fetched with that value, every key whose last
\* acknowledged write is a delete is absent.
C3_CrashRecoversAcked ==
    (running /\ session.ended = "crash") =>
        \A k \in Keys :
            /\ AckedLive(k) => ReturnsAcked(k)
            /\ acked[k].kind = "del" => inodeNum(k) \notin DOMAIN index

(***************************************************************************)
(* Sessions that write, checkpoint, close or crash, and open again: the    *)
(* index files on disk.                                                    *)
(***************************************************************************)
NextIndex ==
    \/ \E key \in Keys, ttl \in TTLs : Put(key, LogLen + 1, ttl, MaxLog)
    \/ \E key \in Keys : Delete(key, MaxLog)
    \/ Checkpoint
    \/ CloseFS
    \/ Crash
    \/ Open

SpecIndex == Init /\ [][NextIndex]_vars

\* the record sets of the index files in the directory
IndexFiles == {c.recs : c \in ckpts} \cup {f.recs : f \in {x \in {indexdb} : x.exists}}

\* recovery reads the file to its end and gets the records written
ReadBack(recs) == ReadIndexRecords(recs) = [err |-> "ok", recs |-> recs]

NextExpiry ==
    \/ \E key \in Keys, ttl \in TTLs : Put(key, LogLen + 1, ttl, MaxWrites)
    \/ \E key \in Keys : Delete(key, MaxWrites)
    \/ \E key \in Keys, expected \in 0..1 :
           UpdateCAS(key, expected, LogLen + 1, ImmortalTTL, MaxWrites)
    \/ \E key \in Keys : Fetch(key)
    \/ Tick
    \/ Sweep

SpecExpiry == Init /\ [][NextExpiry]_vars

\* the key's last acknowledged write is a put with a ttl
AckedWithTTL(key) == acked[key].kind = "put" /\ acked[key].eat > 0

\* before the expiry FetchSegment returns the value; after a fetch at or after
\* the expiry the inode is gone and HasSegment is false
FetchBeforeAndHasAfter(key) ==
    /\ ~IsExpired(acked[key].eat, now) => ReturnsAcked(key)
    /\ acked[key].late # 0 =>
           inodeNum(key) \notin DOMAIN index /\ ~HasSegment(Store, key, now)

C8_HasIffLiveInode ==
    running => \A k \in Keys :
        HasSegment(Store, k, now) =
            (inodeNum(k) \in DOMAIN index /\ ~IsExpired(index[inodeNum(k)].ExpiredAt, now))

\* C9: while a key stays in the index, no step lowers the mvcc of its inode.
C9_MvccNeverDecreases ==
    [][\A k \in Keys :
          (inodeNum(k) \in DOMAIN index /\ inodeNum(k) \in DOMAIN index') =>
              index'[inodeNum(k)].mvcc >= index[inodeNum(k)].mvcc]_vars

\* Segment.ToRecord: the kind is tested, then the value is passed through
\* transformer.Decode
ToRecord(seg, flags) ==
    IF seg.Type # "record" THEN Corrupt ELSE Decode(flags, seg.Value)

\* C18: under every pipeline configuration a value that was put is returned
\* by FetchSegment and the conversion of the fetched segment: the read path
\* decodes the payload as many times as the write path encoded it.
C18_ConversionReturnsValue ==
    running => \A k \in Keys :
        (AckedLive(k) /\ Fetched(k).err = "ok") =>
            ToRecord(Fetched(k).seg, transformer) = Plain(acked[k].val)

\* C19: DeleteSegment on a key that has no inode changes nothing: the shard
\* maps, the active region file and the active offset are as before.
C19_DeleteAbsentIsNoOp ==
    running => \A k \in Keys :
        inodeNum(k) \notin DOMAIN index =>
            /\ DeleteSegment(Store, k, now).index = index
            /\ DeleteSegment(Store, k, now).files = files
            /\ DeleteSegment(Store, k, now).offset = offset

(***************************************************************************)
(* One session with the checkpointer: the three recovery paths on the      *)
(* directory as it is.                                                     *)
(***************************************************************************)
NextRecovery ==
    \/ \E key \in Keys, ttl \in TTLs : Put(key, LogLen + 1, ttl, MaxWrites)
    \/ \E key \in Keys : Delete(key, MaxWrites)
    \/ \E key \in Keys, expected \in 0..1 :
           UpdateCAS(key, expected, LogLen + 1, ImmortalTTL, MaxWrites)
    \/ Tick
    \/ Checkpoint

SpecRecovery == Init /\ [][NextRecovery]_vars

\* the segment every live key of an index points at
PointsAt(idx) == [i \in DOMAIN idx |-> <<idx[i].RegionID, idx[i].Position, idx[i].CreatedAt>>]

\* (a) the snapshot CloseFS writes now, read back by recoveryIndex
RecoveredFromSnapshot == recoveryIndex(ExportSnapshotIndex(index).recs, EmptyMap, now)
\* (b) the newest checkpoint and the forward scan
RecoveredFromCheckpoint ==
    scanAndRecoverCheckpoint(ckpts, files, dir, EmptyMap, now, transformer).index
\* (c) the full scan
RecoveredFromScan == crashRecoveryAllIndex(files, dir, EmptyMap, now, transformer).index

\* the places (region id, offset) of the records of a key in the region files
PlacesOf(key) ==
    UNION {{<<rid, files[rid].recs[i].pos>> :
               i \in {j \in 1..Len(files[rid].recs) : files[rid].recs[j].seg.Key = key}} :
           rid \in dir}

\* the place of the last record of a key in log order
LastPlaceOf(key) ==
    CHOOSE p \in PlacesOf(key) :
        \A q \in PlacesOf(key) : q[1] < p[1] \/ (q[1] = p[1] /\ q[2] <= p[2])

\* C32: a full scan that succeeds maps each key to its last record in log
\* order or to nothing: a superseded segment is never reachable after
\* recovery.
C32_ScanKeepsLastRecordOnly ==
    crashRecoveryAllIndex(files, dir, EmptyMap, now, transformer).err = "ok" =>
        \A k \in Keys :
            inodeNum(k) \in DOMAIN RecoveredFromScan =>
                <<RecoveredFromScan[inodeNum(k)].RegionID,
                  RecoveredFromScan[inodeNum(k)].Position>> = LastPlaceOf(k)

\* C4: the snapshot, the newest checkpoint with its forward scan, and the full
\* scan, applied to the same directory at the same time, build the same index.
C4_RecoveryPathsAgree ==
    (running /\ ckpts # {}) =>
        /\ PointsAt(RecoveredFromSnapshot) = PointsAt(RecoveredFromCheckpoint)
        /\ PointsAt(RecoveredFromCheckpoint) = PointsAt(RecoveredFromScan)

(***************************************************************************)
(* One session of puts and compare-and-swap updates by one caller, with    *)
(* new segments of every ttl, built at the time of the call or a second    *)
(* before it.                                                              *)
(***************************************************************************)
\* ttl arguments of the new segments, in seconds
CasTTLs == {ImmortalTTL, 1, 999}

\* UpdateSegmentWithCAS with a segment the caller built a second earlier
UpdateStale(key, expected, body, ttl, cap) ==
    /\ running /\ LogLen < cap
    /\ now >= 2 * MicrosPerSecond
    /\ \E newseg \in {NewSegment(key, body, ttl, "record", transformer,
                                  now - MicrosPerSecond)} :
       \E r \in {UpdateSegmentWithCAS(Store, key, expected, newseg, now)} :
           /\ SetStore(r.st)
           /\ acked' = IF r.err = "ok" THEN Wrote(key, body, newseg.ExpiredAt) ELSE acked
           /\ now' = IF r.st.files # files THEN now + 1 ELSE now
    /\ UNCHANGED <<indexdb, ckpts, transformer, running, session>>
    /\ UNCHANGED procVars

NextCAS ==
    \/ \E ttl \in TTLs : Put("a", LogLen + 1, ttl, MaxCasLog)
    \/ \E expected \in 0..MaxUint64, ttl \in CasTTLs :
           UpdateCAS("a", expected, LogLen + 1, ttl, MaxCasLog)
    \/ \E expected \in 0..MaxUint64, ttl \in CasTTLs :
           UpdateStale("a", expected, LogLen + 1, ttl, MaxCasLog)
    \/ Tick

SpecCAS == Init /\ [][NextCAS]_vars

\* the new segments a caller may pass at this time
NewSegs(key) ==
    {NewSegment(key, LogLen + 1, ttl, "record", transformer, built) :
        ttl \in CasTTLs,
        built \in {b \in {now, now - MicrosPerSecond} : b >= MicrosPerSecond}}

\* the errors C13 names
CasErrors == {"notfound", "conflict", "expired", "overflow"}

\* the active offset is the byte length of the active region
OffsetAtEnd(st) == st.offset = FileSize(st.files[st.regionID])

\* C13: when UpdateSegmentWithCAS returns key-not-found, version conflict,
\* expired new segment or mvcc overflow, the store is as before the call: the
\* key's inode is unchanged and the active offset still equals the byte
\* length of the active region.
C13_FailedCASChangesNothing ==
    running =>
        \A key \in Keys, expected \in 0..MaxUint64 : \A newseg \in NewSegs(key) :
        \A r \in {UpdateSegmentWithCAS(Store, key, expected, newseg, now)} :
            r.err \in CasErrors =>
                /\ r.st.index = index
                /\ OffsetAtEnd(Store) => OffsetAtEnd(r.st)

\* C14: UpdateSegmentWithCAS returns the expired error exactly when the new
\* segment's expired_at is positive and not after now; a segment that expires
\* any time in the future, or is immortal, is not rejected for expiry.
C14_ExpiredIffPastExpiry ==
    running =>
        \A key \in Keys, expected \in 0..MaxUint64 : \A newseg \in NewSegs(key) :
            (UpdateSegmentWithCAS(Store, key, expected, newseg, now).err = "expired")
                = (newseg.ExpiredAt > 0 /\ newseg.ExpiredAt <= now)

(***************************************************************************)
(* Concurrent UpdateSegmentWithCAS.  A single caller prepares the store,   *)
(* then every goroutine issues the same call; each goroutine runs the      *)
(* function lock by lock.                                                  *)
(***************************************************************************)
Quiet == \A t \in Threads : pc[t] = "idle" /\ ret[t] = "none"

\* the segment goroutine t passes as newseg
NewSegOf(t) ==
    NewSegment(call[t].key, MaxWrites + t, ImmortalTTL, "record", transformer, now)

Return(t, err) ==
    /\ pc' = [pc EXCEPT ![t] = "done"]
    /\ ret' = [ret EXCEPT ![t] = err]

\* every goroutine calls UpdateSegmentWithCAS(key, expected, newseg)
Launch(key, expected) ==
    /\ running /\ Quiet
    /\ call' = [t \in Threads |->
                   [op |-> "cas", key |-> key, arg |-> expected,
                    was |-> IF inodeNum(key) \in DOMAIN index
                            THEN index[inodeNum(key)].mvcc ELSE -1]]
    /\ pc' = [t \in Threads |-> "cas"]
    /\ UNCHANGED <<diskVars, memVars, transformer, now, running, session, acked,
                   locks, ret, grants, typeVars, goVars>>

\* a faulty version check that does not take imap.mu
CasCheckNoLock(t) ==
    LET inum == inodeNum(call[t].key) IN
    /\ pc[t] = "cas"
    /\ IF ~ExpiresIn(NewSegOf(t), now) THEN Return(t, "expired")
       ELSE IF inum \notin DOMAIN index THEN Return(t, "notfound")
       ELSE IF index[inum].mvcc # call[t].arg THEN Return(t, "conflict")
       ELSE pc' = [pc EXCEPT ![t] = "append"] /\ UNCHANGED ret
    /\ UNCHANGED <<diskVars, memVars, transformer, now, running, session, acked,
                   call, grants, locks, typeVars, goVars>>

\* from the entry to the version check: ExpiresIn, imap.mu.Lock(), the inode
\* lookup and the comparison of inode.mvcc with expected
CasCheck(t) ==
    LET inum == inodeNum(call[t].key)
        sh == ShardOf(inum)
    IN
    /\ pc[t] = "cas"
    /\ IF ~ExpiresIn(NewSegOf(t), now)
       THEN Return(t, "expired") /\ UNCHANGED locks
       ELSE /\ locks.imap[sh] = 0
            /\ IF inum \notin DOMAIN index
               THEN Return(t, "notfound") /\ UNCHANGED locks
               ELSE IF index[inum].mvcc # call[t].arg
               THEN Return(t, "conflict") /\ UNCHANGED locks
               ELSE /\ locks' = [locks EXCEPT !.imap[sh] = t]
                    /\ pc' = [pc EXCEPT ![t] = "append"]
                    /\ UNCHANGED ret
    /\ UNCHANGED <<diskVars, memVars, transformer, now, running, session, acked,
                   call, grants, typeVars, goVars>>

\* lfs.mu.Lock(); appendToActiveRegion; lfs.mu.Unlock()
CasAppend(t) ==
    /\ pc[t] = "append"
    /\ locks.mu = 0
    /\ files' = appendToActiveRegion(files, regionID, NewSegOf(t))
    /\ pc' = [pc EXCEPT ![t] = "store"]
    /\ UNCHANGED <<dir, indexdb, ckpts, memVars, transformer, now, running, session,
                   acked, locks, call, ret, grants, typeVars, goVars>>

\* the stores into the inode, the overflow test, the two adds, and the
\* deferred imap.mu.Unlock()
CasStore(t) ==
    \E inum \in {inodeNum(call[t].key)}, newseg \in {NewSegOf(t)} :
    \E sh \in {ShardOf(inum)},
       moved \in {IF pc[t] = "store"
                  THEN [index[inum] EXCEPT !.CreatedAt = newseg.CreatedAt,
                                           !.ExpiredAt = newseg.ExpiredAt,
                                           !.RegionID = regionID,
                                           !.Length = Size(newseg),
                                           !.Position = offset]
                  ELSE [mvcc |-> 0]} :
    /\ pc[t] = "store"
    /\ IF moved.mvcc = MaxUint64
       THEN /\ index' = MapPut(index, inum, moved)
            /\ Return(t, "overflow")
            /\ UNCHANGED offset
       ELSE /\ index' = MapPut(index, inum, [moved EXCEPT !.mvcc = moved.mvcc + 1])
            /\ offset' = offset + Size(newseg)
            /\ Return(t, "ok")
    /\ locks' = [locks EXCEPT !.imap[sh] = IF @ = t THEN 0 ELSE @]
    /\ UNCHANGED <<diskVars, regions, regionID, transformer, now, running, session,
                   acked, call, grants, typeVars, goVars>>

NextConc ==
    \/ \E key \in Keys, ttl \in TTLs : Quiet /\ Put(key, LogLen + 1, ttl, MaxLog)
    \/ \E key \in Keys : Quiet /\ Delete(key, MaxLog)
    \/ \E key \in Keys, expected \in 0..1 :
           Quiet /\ UpdateCAS(key, expected, LogLen + 1, ImmortalTTL, MaxLog)
    \/ \E key \in Keys, expected \in 0..1 : Launch(key, expected)
    \/ \E t \in Threads : CasCheck(t)
    \/ \E t \in Threads : CasAppend(t)
    \/ \E t \in Threads : CasStore(t)

SpecConc == Init /\ [][NextConc]_vars

\* the calls have all returned
AllReturned == \A t \in Threads : pc[t] = "done"
\* the goroutines whose call returned nil
Winners == {t \in Threads : ret[t] = "ok"}
\* every call is on a key in the index and passes the inode's mvcc as expected
SameLiveVersion == \A t \in Threads : call[t].op = "cas" /\ call[t].was = call[t].arg

\* C1: of the concurrent UpdateSegmentWithCAS calls on a live key that all
\* pass the inode's current mvcc as expected, exactly one succeeds, the others
\* return the version conflict, and the inode's mvcc ends at expected + 1.
C1_ExactlyOneCASWins ==
    /\ SameLiveVersion => Cardinality(Winners) <= 1
    /\ (SameLiveVersion /\ AllReturned) =>
           /\ Cardinality(Winners) = 1
           /\ \A t \in Threads \ Winners : ret[t] = "conflict"
           /\ \A t \in Threads :
                  index[inodeNum(call[t].key)].mvcc = call[t].arg + 1

C1_Witness ==
    /\ SameLiveVersion /\ AllReturned
    /\ Cardinality(Winners) = 1
    /\ Cardinality({t \in Threads : ret[t] = "conflict"}) = MaxThreads - 1
    /\ \E t \in Threads : call[t].arg = 1

(***************************************************************************)
(* Goroutines calling into the store at the same time.  A call runs step   *)
(* by step: a step ends where the function waits for a lock, or where it   *)
(* reads or writes a field that another goroutine can touch meanwhile.     *)
(* PutSegment puts a new inode object into the shard map; the other calls  *)
(* work on the object they looked up, which UpdateSegmentWithCAS changes   *)
(* in place.                                                               *)
(***************************************************************************)
Workers == 1..MaxWorkers
\* the keys the goroutines delete, and the keys they fetch and update
DelKeys == {"b"}
CasKeys == {"a"}

\* the calls that have not appended their record yet
Appending == Cardinality({t \in Workers : pc[t] \in {"put", "del", "cas", "cas_append"}})

\* the calls made so far
CallsMade == LET n[S \in SUBSET Workers] ==
                     IF S = {} THEN 0
                     ELSE LET x == CHOOSE y \in S : TRUE
                          IN  local[x].n + n[S \ {x}]
             IN  n[Workers]

\* the inode object goroutine t holds a pointer to: the one in the shard map
\* while it is still there, else as it was when it left the map
Obj(t) ==
    IF inodeNum(call[t].key) \in DOMAIN index /\ gen[inodeNum(call[t].key)] + 1 = local[t].ptr
    THEN index[inodeNum(call[t].key)]
    ELSE local[t].ino

\* the locals once the object of inum leaves the shard map: the goroutines
\* that hold a pointer to it keep the object
Detached(loc, inum) ==
    [t \in Threads |->
        IF /\ loc[t].ptr # 0 /\ inodeNum(call[t].key) = inum
           /\ inum \in DOMAIN index /\ gen[inum] + 1 = loc[t].ptr
        THEN [loc[t] EXCEPT !.ino = index[inum]]
        ELSE loc[t]]

\* the locals after goroutine t has made the lock and unlock calls ev
Locked(loc, t, ev) == [loc EXCEPT ![t].lk = @ \o ev]

\* the frame of every step of a call
StepFrame == <<ckpts, transformer, session, grants, typeVars, call>>

\* the call returns err: the locals are gone, but for what the caller keeps
Reply(t, err, loc) ==
    /\ pc' = [pc EXCEPT ![t] = "idle"]
    /\ ret' = [ret EXCEPT ![t] = err]
    /\ local' = [loc EXCEPT ![t] = [NoLocal EXCEPT !.lk = loc[t].lk, !.n = loc[t].n,
                                                    !.began = loc[t].began,
                                                    !.got = loc[t].got]]

\* the call goes on at the label next
Goto(t, next, loc) ==
    /\ pc' = [pc EXCEPT ![t] = next]
    /\ local' = loc
    /\ UNCHANGED ret

\* the segment the caller builds for its call
SegmentOf(op, key, arg) ==
    IF op = "put" THEN NewSegment(key, CallsMade + 1, arg, "record", transformer, now)
    ELSE IF op = "cas" THEN NewSegment(key, CallsMade + 1, ImmortalTTL, "record", transformer, now)
    ELSE IF op = "del" THEN NewTombstoneSegment(key, now)
    ELSE NoLocal.seg

\* goroutine t calls PutSegment(key, seg) with ttl arg, DeleteSegment(key),
\* UpdateSegmentWithCAS(key, arg, seg), FetchSegment(key) or CloseFS(); the
\* lock and unlock calls noted are those of the call.  calls and cap bound
\* the calls of the goroutine and the records of the log.
Begin(t, op, key, arg, calls, cap) ==
    /\ running /\ pc[t] = "idle" /\ local[t].n < calls
    /\ op \in {"put", "del", "cas"} => LogLen + Appending < cap
    /\ call' = [call EXCEPT ![t] = [op |-> op, key |-> key, arg |-> arg, was |-> 0]]
    /\ pc' = [pc EXCEPT ![t] = op]
    /\ ret' = [ret EXCEPT ![t] = "none"]
    /\ local' = [local EXCEPT ![t] = [NoLocal EXCEPT !.seg = SegmentOf(op, key, arg),
                                                      !.began = gen[inodeNum(key)],
                                                      !.n = local[t].n + 1,
                                                      !.got = local[t].got]]
    /\ UNCHANGED <<diskVars, memVars, transformer, now, running, session, acked, locks,
                   grants, typeVars, gen>>

Start(t, op, key, arg) == Begin(t, op, key, arg, MaxCalls, MaxParLog)

\* PutSegment: lfs.mu.Lock(), appendToActiveRegion
PutAppend(t) ==
    /\ running /\ pc[t] = "put" /\ locks.mu = 0
    /\ locks' = [locks EXCEPT !.mu = t]
    /\ files' = appendToActiveRegion(files, regionID, local[t].seg)
    /\ Goto(t, "put_store", Locked(local, t, <<"mu">>))
    /\ UNCHANGED <<dir, indexdb, memVars, now, running, gen, acked, StepFrame>>

\* PutSegment: imap.mu.Lock(), the new inode, imap.mu.Unlock(), the offset,
\* the threshold test, the deferred lfs.mu.Unlock()
PutStore(t) ==
    \E inum \in {inodeNum(call[t].key)}, seg \in {local[t].seg} :
    \E s1 \in {[Store EXCEPT !.index = MapPut(index, inum, NewInode(regionID, offset, seg)),
                             !.offset = offset + Size(seg)]} :
    /\ running /\ pc[t] = "put_store" /\ locks.imap[ShardOf(inum)] = 0
    /\ SetStore(IF s1.offset >= regionThreshold THEN createActiveRegion(s1) ELSE s1)
    /\ gen' = [gen EXCEPT ![inum] = @ + 1]
    /\ locks' = [locks EXCEPT !.mu = 0]
    /\ Reply(t, "ok",
             Locked(Detached(local, inum), t, <<"imap", "-imap", "-mu">>))
    /\ acked' = Wrote(call[t].key, seg.Value.body, seg.ExpiredAt)
    /\ UNCHANGED <<indexdb, now, running, StepFrame>>

\* DeleteSegment: lfs.mu.Lock(), appendToActiveRegion, the offset, lfs.mu.Unlock()
DelAppend(t) ==
    /\ running /\ pc[t] = "del" /\ locks.mu = 0
    /\ files' = appendToActiveRegion(files, regionID, local[t].seg)
    /\ offset' = offset + Size(local[t].seg)
    /\ Goto(t, "del_store", Locked(local, t, <<"mu", "-mu">>))
    /\ UNCHANGED <<dir, indexdb, index, regions, regionID, now, running, locks, gen, acked,
                   StepFrame>>

\* DeleteSegment: imap.mu.Lock(), delete(imap.index, inum), imap.mu.Unlock()
DelStore(t) ==
    \E inum \in {inodeNum(call[t].key)} :
    /\ running /\ pc[t] = "del_store" /\ locks.imap[ShardOf(inum)] = 0
    /\ index' = MapDel(index, inum)
    /\ acked' = [acked EXCEPT ![call[t].key] =
                    [NoWrite EXCEPT !.kind = "del", !.sess = session.count]]
    /\ Reply(t, "ok", Locked(Detached(local, inum), t, <<"imap", "-imap">>))
    /\ UNCHANGED <<diskVars, regions, regionID, offset, now, running, locks, gen, StepFrame>>

\* UpdateSegmentWithCAS from the entry to the version check: ExpiresIn,
\* imap.mu.Lock() with the deferred unlock, the lookup, the comparison of
\* inode.mvcc with expected
CasLookup(t) ==
    \E inum \in {inodeNum(call[t].key)} :
    /\ running /\ pc[t] = "cas"
    /\ IF ~ExpiresIn(local[t].seg, now)
       THEN Reply(t, "expired", local) /\ UNCHANGED locks
       ELSE /\ locks.imap[ShardOf(inum)] = 0
            /\ IF inum \notin DOMAIN index
               THEN /\ Reply(t, "notfound", Locked(local, t, <<"imap", "-imap">>))
                    /\ UNCHANGED locks
               ELSE IF index[inum].mvcc # call[t].arg
               THEN /\ Reply(t, "conflict", Locked(local, t, <<"imap", "-imap">>))
                    /\ UNCHANGED locks
               ELSE /\ locks' = [locks EXCEPT !.imap[ShardOf(inum)] = t]
                    /\ Goto(t, "cas_append", Locked(local, t, <<"imap">>))
    /\ UNCHANGED <<diskVars, memVars, now, running, gen, acked, StepFrame>>

\* UpdateSegmentWithCAS: lfs.mu.Lock(), appendToActiveRegion, lfs.mu.Unlock()
CasWrite(t) ==
    /\ running /\ pc[t] = "cas_append" /\ locks.mu = 0
    /\ files' = appendToActiveRegion(files, regionID, local[t].seg)
    /\ Goto(t, "cas_region", Locked(local, t, <<"mu", "-mu">>))
    /\ UNCHANGED <<dir, indexdb, memVars, now, running, locks, gen, acked, StepFrame>>

\* UpdateSegmentWithCAS: the atomic stores of CreatedAt, ExpiredAt and
\* RegionID into the inode, lfs.regionID being read without lfs.mu
CasStoreRegion(t) ==
    \E inum \in {inodeNum(call[t].key)} :
    /\ running /\ pc[t] = "cas_region"
    /\ index' = MapPut(index, inum, [index[inum] EXCEPT !.CreatedAt = local[t].seg.CreatedAt,
                                                        !.ExpiredAt = local[t].seg.ExpiredAt,
                                                        !.RegionID = regionID])
    /\ Goto(t, "cas_position", local)
    /\ UNCHANGED <<diskVars, regions, regionID, offset, now, running, locks, gen, acked, StepFrame>>

\* UpdateSegmentWithCAS: the atomic stores of Length and Position, lfs.offset
\* being read without lfs.mu, the overflow test, the two adds and the
\* deferred imap.mu.Unlock()
CasStorePosition(t) ==
    \E inum \in {inodeNum(call[t].key)}, seg \in {local[t].seg} :
    \E moved \in {IF pc[t] = "cas_position"
                  THEN [index[inum] EXCEPT !.Length = Size(seg), !.Position = offset]
                  ELSE [mvcc |-> 0]} :
    /\ running /\ pc[t] = "cas_position"
    /\ IF moved.mvcc = MaxUint64
       THEN /\ index' = MapPut(index, inum, moved)
            /\ UNCHANGED offset
            /\ Reply(t, "overflow", Locked(local, t, <<"-imap">>))
            /\ UNCHANGED acked
       ELSE /\ index' = MapPut(index, inum, [moved EXCEPT !.mvcc = moved.mvcc + 1])
            /\ offset' = offset + Size(seg)
            /\ Reply(t, "ok", Locked(local, t, <<"-imap">>))
            /\ acked' = Wrote(call[t].key, seg.Value.body, seg.ExpiredAt)
    /\ locks' = [locks EXCEPT !.imap[ShardOf(inum)] = 0]
    /\ UNCHANGED <<diskVars, regions, regionID, now, running, gen, StepFrame>>

\* FetchSegment: imap.mu.RLock(), the lookup, imap.mu.RUnlock()
FetchLookup(t) ==
    \E inum \in {inodeNum(call[t].key)} :
    /\ running /\ pc[t] = "fetch" /\ locks.imap[ShardOf(inum)] = 0
    /\ IF inum \notin DOMAIN index
       THEN Reply(t, "notfound", Locked(local, t, <<"imap.r", "-imap.r">>))
       ELSE Goto(t, "fetch_load",
                 Locked([local EXCEPT ![t].ptr = gen[inum] + 1, ![t].ino = index[inum]],
                        t, <<"imap.r", "-imap.r">>))
    /\ UNCHANGED <<diskVars, memVars, now, running, locks, gen, acked, StepFrame>>

\* FetchSegment: the loads of inode.ExpiredAt and the expiry test, the load
\* of inode.RegionID and the lookup in lfs.regions
FetchLoad(t) ==
    \E o \in {Obj(t)} :
    /\ running /\ pc[t] = "fetch_load"
    /\ IF IsExpired(o.ExpiredAt, now) THEN Goto(t, "fetch_evict", local)
       ELSE IF o.RegionID \notin regions THEN Reply(t, "noregion", local)
       ELSE Goto(t, "fetch_read", [local EXCEPT ![t].rid = o.RegionID])
    /\ UNCHANGED <<diskVars, memVars, now, running, locks, gen, acked, StepFrame>>

\* FetchSegment: imap.mu.Lock(), delete(imap.index, inum), imap.mu.Unlock()
FetchEvict(t) ==
    \E inum \in {inodeNum(call[t].key)} :
    /\ running /\ pc[t] = "fetch_evict" /\ locks.imap[ShardOf(inum)] = 0
    /\ index' = MapDel(index, inum)
    /\ Reply(t, "expired", Locked(Detached(local, inum), t, <<"imap", "-imap">>))
    /\ UNCHANGED <<diskVars, regions, regionID, offset, now, running, locks, gen, acked, StepFrame>>

\* FetchSegment: the load of inode.Position, readSegment, the load of inode.mvcc
FetchRead(t) ==
    \E o \in {Obj(t)} :
    \E r \in {IF pc[t] = "fetch_read"
               THEN readSegment(files, local[t].rid, o.Position, transformer)
               ELSE [err |-> "none"]} :
    /\ running /\ pc[t] = "fetch_read"
    /\ Reply(t, r.err,
             [local EXCEPT ![t].got =
                 IF r.err = "ok"
                 THEN [key |-> call[t].key, mvcc |-> o.mvcc, val |-> BodyOf(r.seg),
                       rkey |-> r.seg.Key, gen |-> gen[inodeNum(call[t].key)]]
                 ELSE NoFetch])
    /\ UNCHANGED <<diskVars, memVars, now, running, locks, gen, acked, StepFrame>>

\* CloseFS: lfs.mu.Lock() with the deferred unlock, FlushToDisk of the regions
CloseLock(t) ==
    /\ running /\ pc[t] = "close" /\ locks.mu = 0
    /\ locks' = [locks EXCEPT !.mu = t]
    /\ Goto(t, "close_export", Locked(local, t, <<"mu">>))
    /\ UNCHANGED <<diskVars, memVars, now, running, gen, acked, StepFrame>>

\* CloseFS: ExportSnapshotIndex, which takes imap.mu.RLock() of every shard
\* in turn, and the deferred lfs.mu.Unlock(); the process ends
CloseExport(t) ==
    /\ running /\ pc[t] = "close_export"
    /\ \A sh \in DOMAIN locks.imap : locks.imap[sh] = 0
    /\ indexdb' = ExportSnapshotIndex(index)
    /\ locks' = [locks EXCEPT !.mu = 0]
    /\ running' = FALSE
    /\ session' = [session EXCEPT !.ended = "close"]
    /\ Reply(t, "ok", Locked(local, t, <<"imap.r", "-imap.r", "-mu">>))
    /\ UNCHANGED <<files, dir, ckpts, memVars, transformer, now, acked, grants,
                   typeVars, call, gen>>

NextPar ==
    \/ \E t \in Workers, key \in Keys, ttl \in TTLs : Start(t, "put", key, ttl)
    \/ \E t \in Workers, key \in DelKeys : Start(t, "del", key, 0)
    \/ \E t \in Workers, key \in CasKeys : Start(t, "cas", key, local[t].got.mvcc)
    \/ \E t \in Workers, key \in CasKeys : Start(t, "fetch", key, 0)
    \/ \E t \in Workers : Start(t, "close", "a", 0)
    \/ \E t \in Workers : PutAppend(t)
    \/ \E t \in Workers : PutStore(t)
    \/ \E t \in Workers : DelAppend(t)
    \/ \E t \in Workers : DelStore(t)
    \/ \E t \in Workers : CasLookup(t)
    \/ \E t \in Workers : CasWrite(t)
    \/ \E t \in Workers : CasStoreRegion(t)
    \/ \E t \in Workers : CasStorePosition(t)
    \/ \E t \in Workers : FetchLookup(t)
    \/ \E t \in Workers : FetchLoad(t)
    \/ \E t \in Workers : FetchEvict(t)
    \/ \E t \in Workers : FetchRead(t)
    \/ \E t \in Workers : CloseLock(t)
    \/ \E t \in Workers : CloseExport(t)
    \/ Tick

\* the pipeline plays no part in the locking: the store runs without one
InitPar == Init /\ transformer = {}

SpecPar == InitPar /\ [][NextPar]_vars

\* no call is in flight
Quiescent == \A t \in Workers : pc[t] = "idle"

\* the inode points at a complete live segment of its own key
PointsAtOwnSegment(inum, o) ==
    /\ o.RegionID \in DOMAIN files
    /\ HasRecAt(files[o.RegionID], o.Position)
    /\ \E seg \in {IF o.RegionID \in DOMAIN files /\ HasRecAt(files[o.RegionID], o.Position)
                    THEN RecAt(files[o.RegionID], o.Position)
                    ELSE NoLocal.seg} :
           /\ inodeNum(seg.Key) = inum
           /\ ~IsTombstone(seg)
           /\ SerializedLen(seg) = o.Length

\* C21: in every reachable state, whatever the interleaving of PutSegment,
\* DeleteSegment and UpdateSegmentWithCAS calls, every inode of the index
\* (no writer being in the middle of changing it under its shard lock) points
\* at the start of a complete non-tombstone segment of its own key, whose
\* size is the inode's Length.
C21_InodePointsAtItsSegment ==
    \A inum \in DOMAIN index :
        locks.imap[ShardOf(inum)] = 0 => PointsAtOwnSegment(inum, index[inum])

\* goroutine t held lfs.mu when it made the i-th lock call of its call
HeldMuAt(t, i) ==
    Cardinality({j \in 1..(i - 1) : local[t].lk[j] = "mu"})
        > Cardinality({j \in 1..(i - 1) : local[t].lk[j] = "-mu"})

\* C22: locks are taken in the order shard lock, then region-store lock: no
\* goroutine takes a shard lock, for reading or for writing, while it holds
\* lfs.mu.
C22_ShardLockBeforeStoreLock ==
    \A t \in Workers : \A i \in 1..Len(local[t].lk) :
        local[t].lk[i] \in {"imap", "imap.r"} => ~HeldMuAt(t, i)

\* goroutine t waits for lfs.mu, and for the lock of the shard sh
WaitsForMu(t) == pc[t] \in {"put", "del", "cas_append", "close"} /\ locks.mu \notin {0, t}
WaitsForShard(t, sh) ==
    /\ locks.imap[sh] \notin {0, t}
    /\ \/ pc[t] \in {"put_store", "del_store", "fetch", "fetch_evict"}
             /\ sh = ShardOf(inodeNum(call[t].key))
       \/ pc[t] = "close_export"

\* C23: no reachable state has two goroutines each waiting for a lock that
\* the other holds.
C23_NoDeadlock ==
    \A t, u \in Workers, sh \in DOMAIN locks.imap :
        ~(/\ locks.mu = t /\ WaitsForShard(t, sh)
          /\ locks.imap[sh] = u /\ WaitsForMu(u))

\* C25: whenever no goroutine holds lfs.mu, lfs.offset is the byte length of
\* the active region file.
C25_OffsetIsFileLength ==
    locks.mu = 0 => offset = FileSize(files[regionID])

\* the index a replay of the region files builds
Replayed == crashRecoveryAllIndex(files, dir, EmptyMap, now, transformer).index

\* the entries of idx that have not expired
Unexpired(idx) == {i \in DOMAIN idx : ~IsExpired(idx[i].ExpiredAt, now)}

\* C27: at every quiescent point the index holds what a replay of the region
\* files in (region id, offset) order builds: the same unexpired keys, at the
\* same places.
C27_IndexIsReplayAtQuiescence ==
    (running /\ Quiescent) =>
        /\ Unexpired(index) = Unexpired(Replayed)
        /\ \A i \in Unexpired(index) : PointsAt(index)[i] = PointsAt(Replayed)[i]

\* C28: a FetchSegment that found an expired inode evicts only that inode:
\* the inode its eviction takes out of the index is an expired one.
C28_EvictsOnlyTheExpiredInode ==
    [][\A t \in Workers :
          (pc[t] = "fetch_evict" /\ pc'[t] = "idle"
              /\ inodeNum(call[t].key) \in DOMAIN index)
          => IsExpired(index[inodeNum(call[t].key)].ExpiredAt, now)]_vars

\* C29: UpdateSegmentWithCAS(key, m, s) succeeds only if no PutSegment of
\* the key has succeeded since the FetchSegment that returned m.
C29_NoLostUpdateThroughCAS ==
    [][\A t \in Workers :
          (/\ pc[t] = "cas_position" /\ ret'[t] = "ok"
           /\ local[t].got.key = call[t].key
           /\ local[t].got.mvcc = call[t].arg)
          => local[t].began = local[t].got.gen]_vars

\* another goroutine is inside UpdateSegmentWithCAS on the key of t, between
\* its version check and its return
CasInFlight(t) ==
    \E u \in Workers \ {t} :
        /\ call[u].key = call[t].key
        /\ pc[u] \in {"cas_append", "cas_region", "cas_position"}

\* C30: a FetchSegment that runs beside an UpdateSegmentWithCAS of the same
\* key returns a segment of that key, the old one or the new one, and no
\* error.
C30_FetchUsesOneInodeVersion ==
    [][\A t \in Workers :
          (pc[t] = "fetch_read" /\ pc'[t] = "idle" /\ CasInFlight(t))
          => (ret'[t] = "ok" /\ local'[t].got.rkey = call[t].key)]_vars

(***************************************************************************)
(* The lease-lock service (services.LeaseLockService) over the store.      *)
(* A lease is a segment of kind leaselock whose value is the token.  Each  *)
(* call is two steps: the IsActive test, made before the per-name mutex is *)
(* taken, and the body, made under the mutex.                              *)
(***************************************************************************)
\* ttl arguments of AcquireLock, in seconds
LeaseTTLs == {-1, 0, 1}
\* token arguments of ReleaseLock; 0 is a token no lease carries
Tokens == 0..MaxLog
\* the goroutines calling the lease service
LeaseThreads == 1..(MaxThreads - 1)

\* calls that have passed the IsActive test and not yet run their body
Pending == Cardinality({t \in Threads : pc[t] \in {"acquire", "release"}})

\* the token of the lease the index holds for the name, 0 when it holds none
\* or the lease has expired
StoredToken(name) ==
    LET inum == inodeNum(name) IN
    IF inum \in DOMAIN index /\ ~IsExpired(index[inum].ExpiredAt, now)
       /\ index[inum].RegionID \in DOMAIN files
       /\ HasRecAt(files[index[inum].RegionID], index[inum].Position)
    THEN RecAt(files[index[inum].RegionID], index[inum].Position).Value.body
    ELSE 0

\* LogStructuredFS.IsActive, the presence test the services call: an inode
\* exists and now < expired_at when an expiry is set (-1 and 0 mean none)
IsActive(st, key, t) ==
    LET inum == inodeNum(key) IN
    inum \in DOMAIN st.index /\ ~IsExpired(st.index[inum].ExpiredAt, t)

\* Segment.ToLeaseLock: the kind is tested, then the value is passed through
\* transformer.Decode again
ToLeaseLock(seg, flags) ==
    IF seg.Type # "leaselock" THEN Corrupt ELSE Decode(flags, seg.Value)

Returned(t, err) ==
    /\ pc' = [pc EXCEPT ![t] = "idle"]
    /\ ret' = [ret EXCEPT ![t] = err]

\* AcquireLock up to the mutex: ErrAlreadyLocked when IsActive(name); cap
\* bounds the records the calls admitted may write
AcquireLockTest(t, name, ttl, cap) ==
    /\ running /\ pc[t] = "idle" /\ LogLen + Pending < cap
    /\ call' = [call EXCEPT ![t] = [op |-> "acquire", key |-> name, arg |-> ttl,
                                    was |-> StoredToken(name)]]
    /\ IF IsActive(Store, name, now)
       THEN Returned(t, "ErrAlreadyLocked")
       ELSE pc' = [pc EXCEPT ![t] = "acquire"] /\ ret' = [ret EXCEPT ![t] = "none"]
    /\ UNCHANGED <<diskVars, memVars, transformer, now, running, session, acked,
                   locks, grants, typeVars, goVars>>

AcquireLockCheck(t, name, ttl) == AcquireLockTest(t, name, ttl, MaxLog)

\* AcquireLock under the mutex: ttl test, AcquireLeaseLock, AcquirePoolSegment,
\* PutSegment; the caller gives the lease object back once it has answered
AcquireLockBody(t) ==
    \E name \in {call[t].key}, ttl \in {call[t].arg}, g \in AcquireLeaseLock(leaseLockPools) :
    \E seg \in {NewSegment(name, g.token, ttl, "leaselock", transformer, now)} :
    /\ pc[t] = "acquire"
    /\ IF ttl < 0
       THEN /\ Returned(t, "ErrInvalidLeaseTTL")
            /\ UNCHANGED <<files, dir, memVars, grants, now, leaseLockPools>>
       ELSE /\ SetStore(PutSegment(Store, name, seg))
            /\ grants' = grants \cup {[name |-> name, token |-> g.token,
                                       eat |-> seg.ExpiredAt, rel |-> FALSE]}
            /\ leaseLockPools' = ReleaseToPool(g.pool)
            /\ Returned(t, "ok")
            /\ now' = now + 1
    /\ UNCHANGED <<indexdb, ckpts, transformer, running, session, acked, locks, call,
                   leases, trace, goVars>>

\* ReleaseLock up to the mutex: ErrLockNotFound unless IsActive(name)
ReleaseLockTest(t, name, token, cap) ==
    /\ running /\ pc[t] = "idle" /\ LogLen + Pending < cap
    /\ call' = [call EXCEPT ![t] = [op |-> "release", key |-> name, arg |-> token,
                                    was |-> StoredToken(name)]]
    /\ IF ~IsActive(Store, name, now)
       THEN Returned(t, "ErrLockNotFound")
       ELSE pc' = [pc EXCEPT ![t] = "release"] /\ ret' = [ret EXCEPT ![t] = "none"]
    /\ UNCHANGED <<diskVars, memVars, transformer, now, running, session, acked,
                   locks, grants, typeVars, goVars>>

ReleaseLockCheck(t, name, token) == ReleaseLockTest(t, name, token, MaxLog)

\* ReleaseLock under the mutex: FetchSegment, ToLeaseLock, the token
\* comparison, DeleteSegment.  ToLeaseLock unmarshals the token into an
\* object it takes from the pool; the deferred ReleaseToPool gives it back.
ReleaseLockBody(t) ==
    \E name \in {call[t].key}, o \in AcquireLeaseLock(leaseLockPools) :
    \E r \in {FetchSegment(Store, name, now, transformer)} :
    \E slock \in {ToLeaseLock(r.seg, transformer)} :
    /\ pc[t] = "release"
    /\ call' = [call EXCEPT ![t].was = StoredToken(name)]
    /\ IF r.err # "ok"
       THEN /\ SetStore(r.st) /\ Returned(t, "fetch")
            /\ UNCHANGED <<grants, now, leaseLockPools>>
       ELSE IF ~slock.ok
       THEN /\ Returned(t, "decode")
            /\ UNCHANGED <<files, dir, memVars, grants, now, leaseLockPools>>
       ELSE IF slock.body # call[t].arg
       THEN /\ Returned(t, "ErrInvalidToken")
            /\ leaseLockPools' = ReleaseToPool(o.pool)
            /\ UNCHANGED <<files, dir, memVars, grants, now>>
       ELSE /\ SetStore(DeleteSegment(Store, name, now))
            /\ grants' = {[g EXCEPT !.rel = g.rel \/ (g.name = name /\ g.token = slock.body)] :
                            g \in grants}
            /\ leaseLockPools' = ReleaseToPool(o.pool)
            /\ Returned(t, "ok")
            /\ now' = now + 1
    /\ UNCHANGED <<indexdb, ckpts, transformer, running, session, acked, locks,
                   leases, trace, goVars>>

NextLease ==
    \/ \E t \in LeaseThreads, name \in Keys, ttl \in LeaseTTLs : AcquireLockCheck(t, name, ttl)
    \/ \E t \in LeaseThreads : AcquireLockBody(t)
    \/ \E t \in LeaseThreads, name \in Keys, token \in Tokens : ReleaseLockCheck(t, name, token)
    \/ \E t \in LeaseThreads : ReleaseLockBody(t)
    \/ Tick

SpecLease == Init /\ [][NextLease]_vars

\* a lease that is neither released nor expired
Held(g) == ~g.rel /\ ~IsExpired(g.eat, now)

\* C5: while a lease on a name is neither released nor expired, no further
\* AcquireLock on the name returns a token, whatever the ttl (0 included) and
\* the interleaving: a name never has two such leases.
C5_OneHeldLeasePerName ==
    \A g \in grants, h \in grants : (g.name = h.name /\ Held(g) /\ Held(h)) => g = h

\* C10: a ReleaseLock whose token differs from the token of the stored lease
\* returns ErrInvalidToken.
C10_BadTokenIsInvalidToken ==
    \A t \in Threads :
        (call[t].op = "release" /\ pc[t] = "idle"
         /\ call[t].was # 0 /\ call[t].was # call[t].arg) => ret[t] = "ErrInvalidToken"

(***************************************************************************)
(* Tables (types.Table) and the table service.  A table in memory is       *)
(* [Table, NextID], Table a map from row ids to rows; a row is a number.   *)
(* Its bytes are a number as well: one digit per row id, base RowBase.     *)
(***************************************************************************)
\* the rows a client inserts
RowVals == {1, 2}
RowBase == Cardinality(RowVals) + 1

\* NewTable, and what AcquireTable returns: the pool holds new and cleared
\* tables only
NewTable == [Table |-> EmptyMap, NextID |-> 0]

\* Table.AddRows: [tab, id]
AddRows(tab, rows) ==
    [tab |-> [Table |-> MapPut(tab.Table, tab.NextID + 1, rows), NextID |-> tab.NextID + 1],
     id |-> tab.NextID + 1]

RECURSIVE MarshalRows(_, _)
MarshalRows(m, ids) ==
    IF ids = {} THEN 0
    ELSE MarshalRows(m, ids \ {Max(ids)}) + m[Max(ids)] * RowBase ^ (Max(ids) - 1)

\* Table.ToBytes: msgpack.Marshal(&tab.Table), the map and nothing else
ToBytes(tab) == 1 + MarshalRows(tab.Table, DOMAIN tab.Table)

RowDigit(bytes, id) == ((bytes - 1) \div RowBase ^ (id - 1)) % RowBase

\* msgpack.Unmarshal of the bytes of a map
UnmarshalRows(bytes) ==
    [id \in {i \in 1..MaxRows : RowDigit(bytes, i) # 0} |-> RowDigit(bytes, id)]

\* Segment.ToTable: [ok, tab]; the kind is tested, the value is passed through
\* transformer.Decode, and the map is unmarshalled into a table from the pool
Unmarshalled(decodedData) ==
    IF ~decodedData.ok THEN [ok |-> FALSE, tab |-> NewTable]
    ELSE [ok |-> TRUE, tab |-> [NewTable EXCEPT !.Table = UnmarshalRows(decodedData.body)]]

ToTable(seg, flags) ==
    IF seg.Type # "table" THEN [ok |-> FALSE, tab |-> NewTable]
    ELSE Unmarshalled(Decode(flags, seg.Value))

\* the first value Segment.ExpiresIn returns: the ttl left, -1 for none
AliveTTL(seg, t) ==
    IF seg.ExpiredAt > 0 /\ seg.ExpiredAt > t
    THEN IF (seg.ExpiredAt - t) \div DurationSecond > 0
         THEN (seg.ExpiredAt - t) \div DurationSecond ELSE 0
    ELSE -1

\* CreateTable: [st, err]
CreateTable(st, name, table, ttl, t, flags) ==
    IF HasSegment(st, name, t) THEN [st |-> st, err |-> "ErrTableAlreadyExists"]
    ELSE [st |-> PutSegment(st, name, NewSegment(name, ToBytes(table), ttl, "table", flags, t)),
          err |-> "ok"]

\* InsertRows after AddRows, a being what AddRows returned: [st, err, id, before]
Inserted(st, name, seg, t, flags, before, a) ==
    IF ~ExpiresIn(seg, t) THEN [st |-> st, err |-> "ok", id |-> 0, before |-> before]
    ELSE [st |-> PutSegment(st, name, NewSegment(name, ToBytes(a.tab), AliveTTL(seg, t),
                                                 "table", flags, t)),
          err |-> "ok", id |-> a.id, before |-> before]

\* InsertRows after FetchSegment, r being what it returned and tt what ToTable
\* made of the segment
InsertFetched(name, rows, t, flags, r, tt) ==
    IF r.err # "ok" THEN [st |-> r.st, err |-> r.err, id |-> 0, before |-> {}]
    ELSE IF ~tt.ok THEN [st |-> r.st, err |-> "decode", id |-> 0, before |-> {}]
    ELSE Inserted(r.st, name, r.seg, t, flags, DOMAIN tt.tab.Table, AddRows(tt.tab, rows))

\* InsertRows: [st, err, id, before], before being the ids of the rows the
\* stored table held
InsertRows(st, name, rows, t, flags) ==
    InsertFetched(name, rows, t, flags, FetchSegment(st, name, t, flags),
                  ToTable(FetchSegment(st, name, t, flags).seg, flags))

\* a client creates an empty table
Create(name, ttl) ==
    /\ running /\ LogLen < MaxTableLog
    /\ \E r \in {CreateTable(Store, name, NewTable, ttl, now, transformer)} :
           /\ SetStore(r.st)
           /\ trace' = <<[op |-> "create", name |-> name, err |-> r.err, id |-> 0,
                          before |-> {}]>>
           /\ now' = IF r.st.files # files THEN now + 1 ELSE now
    /\ UNCHANGED <<indexdb, ckpts, transformer, running, session, acked,
                   pc, locks, call, ret, grants, leaseLockPools, leases, goVars>>

\* a client inserts a row
Insert(name, rows) ==
    /\ running /\ LogLen < MaxTableLog
    /\ \E r \in {InsertRows(Store, name, rows, now, transformer)} :
           /\ SetStore(r.st)
           /\ trace' = <<[op |-> "insert", name |-> name, err |-> r.err, id |-> r.id,
                          before |-> r.before]>>
           /\ now' = IF r.st.files # files THEN now + 1 ELSE now
    /\ UNCHANGED <<indexdb, ckpts, transformer, running, session, acked,
                   pc, locks, call, ret, grants, leaseLockPools, leases, goVars>>

NextTable ==
    \/ \E name \in Keys, ttl \in TTLs : Create(name, ttl)
    \/ \E name \in Keys, rows \in RowVals : Insert(name, rows)
    \/ Tick

SpecTable == Init /\ [][NextTable]_vars

NoTimes == [eat |-> 0, cat |-> 0]
TimesOf(seg) == [eat |-> seg.ExpiredAt, cat |-> seg.CreatedAt]

Outcome(st, pool, err, token) ==
    [st |-> st, pool |-> pool, err |-> err, token |-> token, old |-> NoTimes, new |-> NoTimes]

\* AcquireLock from AcquireLeaseLock on, g being what the pool handed out
Acquired(st, name, ttl, t, flags, g) ==
    Outcome(PutSegment(st, name, NewSegment(name, g.token, ttl, "leaselock", flags, t)),
            g.pool, "ok", g.token)

AcquireLock(st, pool, name, ttl, t, flags) ==
    IF IsActive(st, name, t) THEN {Outcome(st, pool, "ErrAlreadyLocked", nullString)}
    ELSE IF ttl < 0 THEN {Outcome(st, pool, "ErrInvalidLeaseTTL", nullString)}
    ELSE {Acquired(st, name, ttl, t, flags, g) : g \in AcquireLeaseLock(pool)}

\* the ttl DoLeaseLock computes from the lease it fetched
RenewedTTL(seg) ==
    IF seg.ExpiredAt > 0 THEN (seg.ExpiredAt - seg.CreatedAt) \div DurationMicrosecond
    ELSE DefaultLeaseTTL

\* DoLeaseLock from the second AcquireLeaseLock on: the new lease is stored,
\* the deferred ReleaseToPool gives the old object back
RenewedOutcome(st, name, seg, t, flags, n, newseg) ==
    [st |-> PutSegment(st, name, newseg), pool |-> ReleaseToPool(n.pool), err |-> "ok",
     token |-> n.token, old |-> TimesOf(seg), new |-> TimesOf(newseg)]

\* DoLeaseLock from ToLeaseLock on, r being what FetchSegment returned
RenewFetched(pool, name, token, t, flags, r, old) ==
    IF r.err # "ok" THEN {Outcome(r.st, pool, "fetch", nullString)}
    ELSE IF ~old.ok THEN {Outcome(r.st, pool, "decode", nullString)}
    ELSE IF old.body # token
    THEN {Outcome(r.st, ReleaseToPool(o.pool), "ErrInvalidToken", nullString) :
             o \in AcquireLeaseLock(pool)}
    ELSE UNION {{RenewedOutcome(r.st, name, r.seg, t, flags, n,
                                NewSegment(name, n.token, RenewedTTL(r.seg), "leaselock",
                                           flags, t)) :
                    n \in AcquireLeaseLock(o.pool)} : o \in AcquireLeaseLock(pool)}

DoLeaseLock(st, pool, name, token, t, flags) ==
    IF ~IsActive(st, name, t) THEN {Outcome(st, pool, "ErrLockNotFound", nullString)}
    ELSE RenewFetched(pool, name, token, t, flags, FetchSegment(st, name, t, flags),
                      ToLeaseLock(FetchSegment(st, name, t, flags).seg, flags))

\* ReleaseLock from ToLeaseLock on, r being what FetchSegment returned
ReleaseFetched(pool, name, token, t, r, slock) ==
    IF r.err # "ok" THEN {Outcome(r.st, pool, "fetch", nullString)}
    ELSE IF ~slock.ok THEN {Outcome(r.st, pool, "decode", nullString)}
    ELSE {Outcome(IF slock.body # token THEN r.st ELSE DeleteSegment(r.st, name, t),
                  ReleaseToPool(o.pool),
                  IF slock.body # token THEN "ErrInvalidToken" ELSE "ok", nullString) :
             o \in AcquireLeaseLock(pool)}

ReleaseLock(st, pool, name, token, t, flags) ==
    IF ~IsActive(st, name, t) THEN {Outcome(st, pool, "ErrLockNotFound", nullString)}
    ELSE ReleaseFetched(pool, name, token, t, FetchSegment(st, name, t, flags),
                        ToLeaseLock(FetchSegment(st, name, t, flags).seg, flags))

(***************************************************************************)
(* A client that runs the lease lifecycle on a free name, call after call: *)
(* acquire, acquire again, renew with the first token, release with the    *)
(* first token, release with the renewed token, acquire.  It gives every   *)
(* lease object it is handed back to the pool once it has read the token,  *)
(* as the controllers do.                                                  *)
(***************************************************************************)
LifecycleOps == <<"acquire", "acquire", "renew", "release", "release", "acquire">>

\* the lifecycle in progress, its name and ttl
InLifecycle == Len(trace) \in 1..(Len(LifecycleOps) - 1)

\* the token the call at position i of the lifecycle passes
TokenArg(i) == IF i = 5 THEN trace[3].token ELSE trace[1].token

\* the outcomes of the call at position i
LifecycleCall(i, name, ttl) ==
    IF LifecycleOps[i] = "acquire"
    THEN AcquireLock(Store, leaseLockPools, name, ttl, now, transformer)
    ELSE IF LifecycleOps[i] = "renew"
    THEN DoLeaseLock(Store, leaseLockPools, name, TokenArg(i), now, transformer)
    ELSE ReleaseLock(Store, leaseLockPools, name, TokenArg(i), now, transformer)

\* the call is made and its result noted; a lease object that came back is
\* released
Called(i, name, ttl, round, o) ==
    /\ SetStore(o.st)
    /\ leaseLockPools' = IF o.err = "ok" /\ LifecycleOps[i] # "release"
                         THEN ReleaseToPool(o.pool) ELSE o.pool
    /\ trace' = Append(IF i = 1 THEN <<>> ELSE trace,
                       [op |-> LifecycleOps[i], name |-> name, ttl |-> ttl, round |-> round,
                        err |-> o.err, token |-> o.token, old |-> o.old, new |-> o.new])
    /\ now' = IF o.st.files # files THEN now + 1 ELSE now
    /\ UNCHANGED <<indexdb, ckpts, transformer, running, session, acked,
                   pc, locks, call, ret, grants, leases, goVars>>

\* the first call of a lifecycle, on a name that holds no lease
LifecycleStart(name, ttl) ==
    /\ running /\ ~InLifecycle
    /\ ~IsActive(Store, name, now)
    /\ \E round \in {IF trace = <<>> THEN 1 ELSE trace[1].round + 1} :
           /\ round <= MaxRounds
           /\ \E o \in LifecycleCall(1, name, ttl) : Called(1, name, ttl, round, o)

\* the next call of the lifecycle in progress
LifecycleStep ==
    /\ running /\ InLifecycle
    /\ \E i \in {Len(trace) + 1} :
       \E o \in LifecycleCall(i, trace[1].name, trace[1].ttl) :
           Called(i, trace[1].name, trace[1].ttl, trace[1].round, o)

NextLifecycle ==
    \/ \E name \in Keys, ttl \in {0, 1} : LifecycleStart(name, ttl)
    \/ LifecycleStep

SpecLifecycle == Init /\ [][NextLifecycle]_vars

\* what the lifecycle's calls return, in order
LifecycleErrs == <<"ok", "ErrAlreadyLocked", "ok", "ErrInvalidToken", "ok", "ok">>

\* C11: run sequentially on a free name, AcquireLock returns a token T1, a
\* second AcquireLock returns ErrAlreadyLocked, DoLeaseLock with T1 returns a
\* token T2 that differs from T1, ReleaseLock with T1 returns ErrInvalidToken,
\* ReleaseLock with T2 succeeds and the next AcquireLock succeeds.
C11_LeaseLifecycle ==
    /\ \A i \in 1..Len(trace) : trace[i].err = LifecycleErrs[i]
    /\ Len(trace) >= 3 => trace[3].token # trace[1].token

\* C15: the lease DoLeaseLock stores lasts as long as the lease it renews,
\* expired_at - created_at being the same for both; the renewal of an
\* immortal lease lasts the 10 s default.
C15_RenewalKeepsDuration ==
    \A i \in 1..Len(trace) :
        (trace[i].op = "renew" /\ trace[i].err = "ok") =>
            trace[i].new.eat - trace[i].new.cat =
                (IF trace[i].old.eat > 0 THEN trace[i].old.eat - trace[i].old.cat
                 ELSE DefaultLeaseTTL * MicrosPerSecond)

(***************************************************************************)
(* The lease pool on its own: callers take lease objects and give them     *)
(* back.                                                                   *)
(***************************************************************************)
\* a caller takes a lease object from the pool
Acquire ==
    /\ leases.n < MaxAcquires
    /\ \E g \in AcquireLeaseLock(leaseLockPools) :
           /\ leaseLockPools' = g.pool
           /\ leases' = [held |-> leases.held + 1,
                         issued |-> leases.issued \cup {g.token},
                         n |-> leases.n + 1,
                         fresh |-> g.token # nullString /\ g.token \notin leases.issued]
    /\ UNCHANGED <<diskVars, memVars, transformer, now, running, session, acked,
                   pc, locks, call, ret, grants, trace, goVars>>

\* a caller gives one of the objects it holds back
Release ==
    /\ leases.held > 0
    /\ leaseLockPools' = ReleaseToPool(leaseLockPools)
    /\ leases' = [leases EXCEPT !.held = @ - 1]
    /\ UNCHANGED <<diskVars, memVars, transformer, now, running, session, acked,
                   pc, locks, call, ret, grants, trace, goVars>>

NextPool == Acquire \/ Release

SpecPool == Init /\ [][NextPool]_vars

\* C12: every lease AcquireLeaseLock returns carries a non-empty token that
\* differs from every token it returned before, also after more acquisitions
\* than the pool was filled with and when a released object is reused.
C12_TokensUniqueNonEmpty == leases.n > 0 => leases.fresh

(***************************************************************************)
(* Compaction (cleanupDirtyRegions), run with no other call in between.    *)
(***************************************************************************)
\* the goroutine of the compaction task
GCThread == 1

isValid(seg, inode, t) ==
    /\ ~IsTombstone(seg)
    /\ seg.CreatedAt = inode.CreatedAt
    /\ (seg.ExpiredAt = ImmortalTTL \/ t < seg.ExpiredAt)

changeRegions(st) ==
    createActiveRegion([st EXCEPT !.regions = st.regions \cup {st.regionID}])

\* the loop over one dirty region from readOffset to size: [st, err].  The
\* segment readSegment returns is serialized again as it is, its Value decoded
\* and its ValueSize as read from the header.  err is "spin" when the loop
\* meets a key that is not in the index: it continues without advancing.
\* the valid segment appended to the active region and its inode moved there
Migrated(st, seg) ==
    LET inum == inodeNum(seg.Key)
        inode == st.index[inum]
    IN  [st EXCEPT !.files = appendToActiveRegion(st.files, st.regionID, seg),
                   !.regions = st.regions \ {inode.RegionID},
                   !.index = MapPut(st.index, inum,
                                    [inode EXCEPT !.Position = st.offset,
                                                  !.RegionID = st.regionID]),
                   !.offset = st.offset + Size(seg)]

\* the threshold test that follows a migration
Rolled(s1) == IF s1.offset >= regionThreshold THEN changeRegions(s1) ELSE s1

\* r is what readSegment returned at readOffset
RECURSIVE CleanRegion(_, _, _, _, _, _)
CleanFrom(st, rid, readOffset, size, t, flags, r) ==
    IF r.err # "ok" THEN [st |-> st, err |-> "read"]
    ELSE IF inodeNum(r.seg.Key) \notin DOMAIN st.index THEN [st |-> st, err |-> "spin"]
    ELSE CleanRegion(IF isValid(r.seg, st.index[inodeNum(r.seg.Key)], t)
                     THEN Rolled(Migrated(st, r.seg)) ELSE st,
                     rid, readOffset + Size(r.seg), size, t, flags)

CleanRegion(st, rid, readOffset, size, t, flags) ==
    IF readOffset >= size THEN [st |-> st, err |-> "ok"]
    ELSE CleanFrom(st, rid, readOffset, size, t, flags,
                   readSegment(st.files, rid, readOffset, flags))

\* the loop over the dirty regions in ascending order: [st, err].  The file is
\* removed under the name filepath.Join(lfs.directory, fd.Name()); fd.Name()
\* already starts with the directory, so the name exists only when the
\* directory is "." (dot).
Removed(r, rid, dot) ==
    IF r.err # "ok" THEN r
    ELSE IF ~dot THEN [st |-> r.st, err |-> "remove"]
    ELSE [st |-> [r.st EXCEPT !.dir = r.st.dir \ {rid}], err |-> "ok"]

\* acc is [st, err] so far; the first error ends the run
RECURSIVE CleanRegions(_, _, _, _, _)
CleanRegions(acc, dirty, t, flags, dot) ==
    IF dirty = {} \/ acc.err # "ok" THEN acc
    ELSE LET rid == CHOOSE x \in dirty : \A y \in dirty : x <= y
         IN  CleanRegions(Removed(CleanRegion(acc.st, rid, MetadataLen,
                                               FileSize(acc.st.files[rid]), t, flags),
                                  rid, dot),
                          dirty \ {rid}, t, flags, dot)

\* the ids of the n lowest regions
RECURSIVE Lowest(_, _)
Lowest(S, n) ==
    IF n = 0 \/ S = {} THEN {}
    ELSE LET x == CHOOSE y \in S : \A z \in S : y <= z
         IN  {x} \cup Lowest(S \ {x}, n - 1)

\* cleanupDirtyRegions: [st, err]
cleanupDirtyRegions(st, t, flags, dot) ==
    IF Cardinality(st.regions) >= 5
    THEN CleanRegions([st |-> st, err |-> "ok"], Lowest(st.regions, 4), t, flags, dot)
    ELSE [st |-> st, err |-> "ok"]

NotCompacted == pc[GCThread] = "idle" /\ ret[GCThread] = "none"

\* the one run of the compaction task; a run caught in the loop does not return
Compact(dot) ==
    /\ running /\ NotCompacted
    /\ \E r \in {cleanupDirtyRegions(Store, now, transformer, dot)} :
           /\ SetStore(r.st)
           /\ IF r.err = "spin"
              THEN pc' = [pc EXCEPT ![GCThread] = "spin"] /\ UNCHANGED ret
              ELSE ret' = [ret EXCEPT ![GCThread] = r.err] /\ UNCHANGED pc
    /\ UNCHANGED <<indexdb, ckpts, transformer, now, running, session, acked,
                   locks, call, grants, typeVars, goVars>>

NextGC ==
    \/ \E key \in Keys, ttl \in TTLs : NotCompacted /\ Put(key, LogLen + 1, ttl, MaxGCWrites)
    \/ \E key \in Keys : NotCompacted /\ Delete(key, MaxGCWrites)
    \/ \E dot \in BOOLEAN : Compact(dot)

SpecGC == Init /\ [][NextGC]_vars

\* C6: after a compaction run has completed, every key that was live and
\* unexpired is fetched with the value and the expired_at it had, under every
\* pipeline configuration.
C6_CompactionKeepsLiveKeys ==
    (running /\ ret[GCThread] = "ok") =>
        \A k \in Keys : AckedLive(k) =>
            /\ ReturnsAcked(k)
            /\ Fetched(k).seg.ExpiredAt = acked[k].eat

\* C24: every compaction run terminates: whatever the dirty regions hold,
\* the scan offset advances on every iteration of the loop, so that no run is
\* caught in the loop.
C24_CompactionTerminates == pc[GCThread] # "spin"

\* C16: a compaction run that starts with at least 5 open regions and returns
\* without error removes exactly the four regions with the lowest ids at its
\* start from the open-region set and from the disk: none of the four remains
\* in either, and no other region is removed or deleted.
C16_RemovesExactlyLowestFour ==
    [][(ret[GCThread] = "none" /\ ret'[GCThread] = "ok" /\ Cardinality(regions) >= 5) =>
           /\ regions' \cap Lowest(regions, 4) = {}
           /\ dir' \cap Lowest(regions, 4) = {}
           /\ (regions \ Lowest(regions, 4)) \subseteq regions'
           /\ (dir \ Lowest(regions, 4)) \subseteq dir']_vars

(***************************************************************************)
(* Compaction beside a foreground call.  The run goes segment by segment:  *)
(* the read of the segment, the lookup of its inode and the isValid test   *)
(* are one step, the migration under lfs.mu is the next, and the steps of  *)
(* a foreground call fall in between.                                      *)
(***************************************************************************)
\* the goroutines that call into the store while the compaction task runs
Foreground == Workers \ {GCThread}

\* no compaction run and no foreground call has begun
NotStarted == NotCompacted /\ \A t \in Foreground : local[t].n = 0

\* the store has the regions a compaction run asks for
Ready == Cardinality(regions) >= 5

\* the run returns err
GcReturn(err) ==
    /\ pc' = [pc EXCEPT ![GCThread] = "idle"]
    /\ ret' = [ret EXCEPT ![GCThread] = err]
    /\ local' = [local EXCEPT ![GCThread] = NoLocal]

\* the run goes on to the dirty regions left, at the head of the lowest
GcNext(left) ==
    IF left = {} THEN GcReturn("ok")
    ELSE /\ pc' = [pc EXCEPT ![GCThread] = "gc_scan"]
         /\ local' = [local EXCEPT ![GCThread] =
                          [NoLocal EXCEPT !.dirty = left,
                                          !.rid = CHOOSE x \in left : \A y \in left : x <= y,
                                          !.readOffset = MetadataLen]]
         /\ UNCHANGED ret

\* cleanupDirtyRegions: the test on len(lfs.regions), the four lowest regions
GcBegin ==
    /\ running /\ NotCompacted
    /\ GcNext(IF Ready THEN Lowest(regions, 4) ELSE {})
    /\ UNCHANGED <<diskVars, memVars, now, running, locks, gen, acked, StepFrame>>

\* cleanupDirtyRegions: the loop test, readSegment, imap.mu.RLock(), the
\* lookup, imap.mu.RUnlock(), isValid
GcScan ==
    \E rid \in {local[GCThread].rid}, readOffset \in {local[GCThread].readOffset} :
    \E r \in {IF pc[GCThread] = "gc_scan" /\ readOffset < FileSize(files[rid])
               THEN readSegment(files, rid, readOffset, transformer)
               ELSE [err |-> "none", seg |-> NoLocal.seg]} :
    \E inum \in {inodeNum(r.seg.Key)} :
    /\ running /\ pc[GCThread] = "gc_scan"
    /\ IF r.err = "none"
       THEN /\ pc' = [pc EXCEPT ![GCThread] = "gc_remove"]
            /\ UNCHANGED <<ret, local, call>>
       ELSE IF r.err # "ok" THEN GcReturn("read") /\ UNCHANGED call
       ELSE /\ locks.imap[ShardOf(inum)] = 0
            /\ IF inum \notin DOMAIN index
               THEN /\ pc' = [pc EXCEPT ![GCThread] = "spin"]
                    /\ UNCHANGED <<ret, local, call>>
               ELSE IF isValid(r.seg, index[inum], now)
               THEN /\ pc' = [pc EXCEPT ![GCThread] = "gc_move"]
                    /\ local' = [local EXCEPT ![GCThread].seg = r.seg,
                                               ![GCThread].ptr = gen[inum] + 1,
                                               ![GCThread].ino = index[inum]]
                    /\ call' = [call EXCEPT ![GCThread] =
                                    [op |-> "gc", key |-> r.seg.Key, arg |-> 0, was |-> 0]]
                    /\ UNCHANGED ret
               ELSE /\ local' = [local EXCEPT ![GCThread].readOffset = @ + Size(r.seg)]
                    /\ UNCHANGED <<pc, ret, call>>
    /\ UNCHANGED <<diskVars, memVars, now, running, locks, gen, acked,
                   ckpts, transformer, session, grants, typeVars>>

\* cleanupDirtyRegions: lfs.mu.Lock(), appendToActiveRegion, delete(lfs.regions,
\* inode.RegionID), the writes of inode.Position and inode.RegionID, the
\* offset, lfs.mu.Unlock(), the scan offset, the threshold test.  The inode
\* written is the object looked up, in the index or not.
GcMove ==
    \E inum \in {inodeNum(call[GCThread].key)}, seg \in {local[GCThread].seg} :
    \E m \in {IF pc[GCThread] = "gc_move"
               THEN Migrated([Store EXCEPT !.index = MapPut(index, inum, Obj(GCThread))], seg)
               ELSE Store} :
    /\ running /\ pc[GCThread] = "gc_move" /\ locks.mu = 0
    /\ SetStore(Rolled(IF inum \in DOMAIN index /\ gen[inum] + 1 = local[GCThread].ptr
                       THEN m ELSE [m EXCEPT !.index = index]))
    /\ pc' = [pc EXCEPT ![GCThread] = "gc_scan"]
    /\ local' = [local EXCEPT ![GCThread].readOffset = @ + Size(seg),
                               ![GCThread].ptr = 0]
    /\ UNCHANGED <<indexdb, now, running, locks, gen, acked, ret, StepFrame>>

\* cleanupDirtyRegions: lfs.mu.Lock(), os.Remove of the dirty region file,
\* lfs.mu.Unlock(); the name removed exists only in the directory "." (dot)
GcRemove(dot) ==
    /\ running /\ pc[GCThread] = "gc_remove" /\ locks.mu = 0
    /\ IF dot
       THEN /\ dir' = dir \ {local[GCThread].rid}
            /\ GcNext(local[GCThread].dirty \ {local[GCThread].rid})
       ELSE /\ GcReturn("remove")
            /\ UNCHANGED dir
    /\ UNCHANGED <<files, indexdb, memVars, now, running, locks, gen, acked, StepFrame>>

NextMove ==
    \/ \E key \in Keys :
           NotStarted /\ Put(key, MaxMoveCalls + LogLen + 1, ImmortalTTL, MaxMoveLog)
    \/ \E key \in Keys :
           NotStarted /\ UpdateCAS(key, 0, MaxMoveCalls + LogLen + 1, ImmortalTTL, MaxMoveLog)
    \/ \E t \in Foreground, key \in Keys, ttl \in TTLs :
           Ready /\ Begin(t, "put", key, ttl, MaxMoveCalls, MaxMoveLog + MaxMoveLog)
    \/ \E t \in Foreground, key \in Keys :
           Ready /\ Begin(t, "del", key, 0, MaxMoveCalls, MaxMoveLog + MaxMoveLog)
    \/ \E t \in Foreground, key \in Keys :
           Ready /\ Begin(t, "cas", key, 0, MaxMoveCalls, MaxMoveLog + MaxMoveLog)
    \/ \E t \in Foreground : PutAppend(t)
    \/ \E t \in Foreground : PutStore(t)
    \/ \E t \in Foreground : DelAppend(t)
    \/ \E t \in Foreground : DelStore(t)
    \/ \E t \in Foreground : CasLookup(t)
    \/ \E t \in Foreground : CasWrite(t)
    \/ \E t \in Foreground : CasStoreRegion(t)
    \/ \E t \in Foreground : CasStorePosition(t)
    \/ GcBegin
    \/ GcScan
    \/ GcMove
    \/ \E dot \in BOOLEAN : GcRemove(dot)

SpecMove == InitPar /\ [][NextMove]_vars

\* the run and the foreground calls have completed
AllCompleted ==
    /\ running /\ pc[GCThread] = "idle" /\ ret[GCThread] = "ok"
    /\ \A t \in Foreground : pc[t] = "idle"

\* C26: once a compaction run and the PutSegment, UpdateSegmentWithCAS and
\* DeleteSegment calls made beside it have completed, FetchSegment returns
\* the value of the latest successful write of every key, or not-found after
\* a delete.
C26_CompactionKeepsForegroundWrites ==
    AllCompleted =>
        \A k \in Keys :
            /\ AckedLive(k) => ReturnsAcked(k)
            /\ acked[k].kind = "del" => Fetched(k).err = "notfound"

\* C31: in every reachable state, a compaction run being in progress or not,
\* the RegionID of every inode of the index is a key of lfs.regions.
C31_InodeRegionIsOpen ==
    \A inum \in DOMAIN index : index[inum].RegionID \in regions

(***************************************************************************)
(* The per-name mutexes of the lease service (locks.go).  atomicLeaseLocks *)
(* is a sync.Map from names to *sync.Mutex; every Lock and every Unlock    *)
(* looks the mutex up again with LoadOrStore.  locks.lease is the map (0:  *)
(* no entry), locks.holder says which goroutine has locked each mutex      *)
(* object, local[t].at is the mutex a goroutine looked up and local[t].mtx *)
(* the one it locked and has not unlocked.                                 *)
(***************************************************************************)
\* acquireLeaseLock: [m, lk], the mutex LoadOrStore returns and the map after
acquireLeaseLock(name) ==
    IF locks.lease[name] # 0 THEN [m |-> locks.lease[name], lk |-> locks]
    ELSE [m |-> locks.made + 1,
          lk |-> [locks EXCEPT !.lease[name] = locks.made + 1, !.made = locks.made + 1]]

\* the names the goroutines lock
LeaseNames == {"a"}

\* a goroutine that is in no call of the service
Outside(t) == local[t].at = 0 /\ local[t].mtx = 0

\* the calls that lock a per-name mutex: AcquireLock, ReleaseLock, and
\* DeleteVariant, whose map of mutexes is vs.vlock
Sections == {"acquire", "release", "delvariant"}

\* inside the section of the per-name mutex: Lock has returned
InSection(t) == pc[t] \in Sections /\ local[t].mtx # 0

MutexFrame == <<diskVars, memVars, transformer, now, session, acked, call, ret,
                grants, typeVars, gen>>

\* s.acquireLeaseLock(name) of the Lock call (locks.go:63, 105)
MutexLoad(t) ==
    \E r \in {acquireLeaseLock(call[t].key)} :
    /\ running /\ pc[t] \in Sections /\ Outside(t)
    /\ r.m <= MaxMutexes
    /\ locks' = r.lk
    /\ local' = [local EXCEPT ![t].at = r.m]
    /\ UNCHANGED <<MutexFrame, pc, running>>

\* Lock returns.  In AcquireLock the next statement is
\* defer s.acquireLeaseLock(name).Unlock() (locks.go:106), which evaluates
\* the lookup there and then.
MutexLock(t) ==
    \E m \in {local[t].at} :
    /\ running /\ pc[t] \in Sections /\ m # 0 /\ local[t].mtx = 0
    /\ locks.holder[m] = 0
    /\ \E r \in {IF pc[t] = "acquire"
                 THEN acquireLeaseLock(call[t].key) ELSE [m |-> m, lk |-> locks]} :
           /\ r.m <= MaxMutexes
           /\ locks' = [r.lk EXCEPT !.holder[m] = t]
           /\ local' = [local EXCEPT ![t].mtx = m, ![t].at = r.m]
    /\ UNCHANGED <<MutexFrame, pc, running>>

\* the mutex the Unlock of a returning call is applied to: the one the defer
\* statement looked up (AcquireLock), or the one a new lookup gives
\* (ReleaseLock, locks.go:67, 75, 83, 89, 94)
UnlockTarget(t) ==
    IF call[t].op = "acquire" THEN [m |-> local[t].at, lk |-> locks]
    ELSE acquireLeaseLock(call[t].key)

\* the body has answered and the call has not unlocked yet
Leaving(t) == pc[t] = "idle" /\ local[t].mtx # 0

\* Mutex.Unlock: the mutex is free afterwards whoever locked it; unlocking a
\* mutex that is not locked is a fatal error of the runtime.  A ReleaseLock
\* or DeleteVariant that answers nil goes on to delete the entry of the name.
MutexUnlock(t) ==
    \E r \in {UnlockTarget(t)} :
    /\ running /\ Leaving(t)
    /\ r.m <= MaxMutexes
    /\ IF r.lk.holder[r.m] = 0
       THEN /\ running' = FALSE
            /\ locks' = r.lk
            /\ UNCHANGED <<local, pc>>
       ELSE /\ locks' = [r.lk EXCEPT !.holder[r.m] = 0]
            /\ IF call[t].op \in {"release", "delvariant"} /\ ret[t] = "ok"
               THEN /\ pc' = [pc EXCEPT ![t] = "release_delete"]
                    /\ local' = [local EXCEPT ![t].mtx = 0]
               ELSE /\ local' = [local EXCEPT ![t] = NoLocal]
                    /\ UNCHANGED pc
            /\ UNCHANGED running
    /\ UNCHANGED MutexFrame

\* s.atomicLeaseLocks.Delete(name) (locks.go:95)
MutexDelete(t) ==
    /\ running /\ pc[t] = "release_delete"
    /\ locks' = [locks EXCEPT !.lease[call[t].key] = 0]
    /\ local' = [local EXCEPT ![t] = NoLocal]
    /\ pc' = [pc EXCEPT ![t] = "idle"]
    /\ UNCHANGED <<MutexFrame, running>>

NextMutex ==
    \/ \E t \in LeaseThreads, name \in LeaseNames, ttl \in LeaseTTLs :
           Outside(t) /\ AcquireLockTest(t, name, ttl, MaxMutexLog)
    \/ \E t \in LeaseThreads, name \in LeaseNames, token \in Tokens :
           Outside(t) /\ ReleaseLockTest(t, name, token, MaxMutexLog)
    \/ \E t \in LeaseThreads : MutexLoad(t)
    \/ \E t \in LeaseThreads : MutexLock(t)
    \/ \E t \in LeaseThreads : InSection(t) /\ AcquireLockBody(t)
    \/ \E t \in LeaseThreads : InSection(t) /\ ReleaseLockBody(t)
    \/ \E t \in LeaseThreads : MutexUnlock(t)
    \/ \E t \in LeaseThreads : MutexDelete(t)

SpecMutex == InitPar /\ [][NextMutex]_vars

\* goroutines that have locked a mutex of the name and not unlocked
Inside(name) == {t \in Threads : local[t].mtx # 0 /\ call[t].key = name}

\* C33: for each lock name at most one goroutine is inside the section of the
\* per-name mutex, and the Unlock of every returning call is applied to the
\* mutex object its goroutine locked.
C33_OneHolderPerNameAndOwnUnlock ==
    /\ \A name \in Keys : Cardinality(Inside(name)) <= 1
    /\ \A t \in Threads : (running /\ Leaving(t)) => UnlockTarget(t).m = local[t].mtx

(***************************************************************************)
(* The checkpointer, step by step.  The k-th RunCheckpoint that finds      *)
(* lfs.checkpointWorker nil makes ticker k and starts goroutine k, whose   *)
(* loop is `for range lfs.checkpointWorker.C`: the field is read when the  *)
(* goroutine gets to run, not when it is started.  chkptState is a local   *)
(* of each RunCheckpoint call, shared with its goroutine only.             *)
(***************************************************************************)
CkptWorkers == 1..MaxTickers

CkptFrame == <<files, dir, indexdb, memVars, transformer, now, acked, locks, call, ret,
               grants, typeVars, gen>>

\* RunCheckpoint up to and including the go statement
RunCheckpoint ==
    \E k \in {session.ckpt.made + 1} :
    /\ running /\ k <= MaxTickers
    /\ session.ckpt.checkpointWorker = 0
    /\ session' = [session EXCEPT !.ckpt.checkpointWorker = k, !.ckpt.made = k]
    /\ pc' = [pc EXCEPT ![k] = "ckpt_go"]
    /\ local' = [local EXCEPT ![k] = [NoLocal EXCEPT !.began = k]]
    /\ UNCHANGED <<CkptFrame, ckpts, running>>

StopCheckpoint ==
    /\ running /\ session.ckpt.checkpointWorker # 0
    /\ session' = [session EXCEPT !.ckpt.stopped = @ \cup {session.ckpt.checkpointWorker},
                                  !.ckpt.checkpointWorker = 0]
    /\ UNCHANGED <<CkptFrame, ckpts, running, pc, local>>

\* the goroutine evaluates lfs.checkpointWorker.C: a nil pointer ends the
\* process
CkptRange(w) ==
    /\ running /\ pc[w] = "ckpt_go"
    /\ IF session.ckpt.checkpointWorker = 0
       THEN running' = FALSE /\ UNCHANGED <<pc, local>>
       ELSE /\ pc' = [pc EXCEPT ![w] = "ckpt_wait"]
            /\ local' = [local EXCEPT ![w].tk = session.ckpt.checkpointWorker]
            /\ UNCHANGED running
    /\ UNCHANGED <<CkptFrame, ckpts, session>>

\* a ticker that is not stopped fires; the tick is dropped when one waits
CkptTick(tk) ==
    /\ running /\ tk <= session.ckpt.made /\ tk \notin session.ckpt.stopped
    /\ session.ckpt.C[tk] = 0
    /\ session' = [session EXCEPT !.ckpt.C[tk] = 1]
    /\ UNCHANGED <<CkptFrame, ckpts, running, pc, local>>

\* the loop receives a tick: continue when chkptState, else toggle it and
\* test len(lfs.regions) >= 2; the else branch leaves the flag as it is
CkptReceive(w) ==
    /\ running /\ pc[w] = "ckpt_wait" /\ session.ckpt.C[local[w].tk] = 1
    /\ session' = [session EXCEPT !.ckpt.C[local[w].tk] = 0]
    /\ IF local[w].chkptState
       THEN UNCHANGED <<pc, local>>
       ELSE /\ local' = [local EXCEPT ![w].chkptState = TRUE]
            /\ pc' = [pc EXCEPT ![w] = IF Cardinality(regions) >= 2
                                       THEN "ckpt_body" ELSE "ckpt_wait"]
    /\ UNCHANGED <<CkptFrame, ckpts, running>>

\* the run writes the file, renames it, removes the older ones and toggles
\* the flag
CkptWrite(w) ==
    /\ running /\ pc[w] = "ckpt_body"
    /\ ckpts' = Checkpointed(Store, ckpts, now)
    /\ local' = [local EXCEPT ![w].chkptState = FALSE]
    /\ pc' = [pc EXCEPT ![w] = "ckpt_wait"]
    /\ UNCHANGED <<CkptFrame, running, session>>

\* the run fails (OpenFile, Write, FlushToDisk, Rename): the flag is toggled
\* back and the loop continues; local[w].n counts the failures
CkptFail(w) ==
    /\ running /\ pc[w] = "ckpt_body" /\ local[w].n < MaxFailures
    /\ local' = [local EXCEPT ![w].chkptState = FALSE, ![w].n = @ + 1]
    /\ pc' = [pc EXCEPT ![w] = "ckpt_wait"]
    /\ UNCHANGED <<CkptFrame, ckpts, running, session>>

NextCkpt ==
    \/ \E key \in Keys : Put(key, LogLen + 1, ImmortalTTL, MaxCkptLog)
    \/ RunCheckpoint
    \/ StopCheckpoint
    \/ \E w \in CkptWorkers : CkptRange(w)
    \/ \E tk \in CkptWorkers : CkptTick(tk)
    \/ \E w \in CkptWorkers : CkptReceive(w)
    \/ \E w \in CkptWorkers : CkptWrite(w)
    \/ \E w \in CkptWorkers : CkptFail(w)

SpecCkpt == InitPar /\ [][NextCkpt]_vars

\* C34: the in-progress flag of a checkpoint worker is false whenever the
\* worker is not executing a run, so that no later tick is skipped because of
\* a tick that found fewer than 2 regions or a run that failed.
C34_FlagFalseBetweenRuns ==
    \A w \in CkptWorkers : pc[w] = "ckpt_wait" => ~local[w].chkptState

\* the workers that take ticks from a ticker that is not stopped
Consuming == {w \in CkptWorkers : pc[w] \in {"ckpt_wait", "ckpt_body"}
                                  /\ local[w].tk \notin session.ckpt.stopped}

\* C35: at most one checkpoint worker consumes ticks, no two checkpoint runs
\* execute at once, and every worker ranges over the ticker its RunCheckpoint
\* call created, for any interleaving of RunCheckpoint and StopCheckpoint.
C35_OneWorkerOwnTicker ==
    /\ Cardinality(Consuming) <= 1
    /\ Cardinality({w \in CkptWorkers : pc[w] = "ckpt_body"}) <= 1
    /\ \A w \in CkptWorkers : pc[w] \in {"ckpt_wait", "ckpt_body"} => local[w].tk = local[w].began

(***************************************************************************)
(* Shutdown beside a compaction run.  closeStorage calls StopCompactRegion *)
(* and then CloseFS.  StopCompactRegion takes lfs.mu, calls                *)
(* compactTask.Stop(), whose result (the context that is done when the     *)
(* running jobs have returned) it drops, and sets compactTask to nil: no   *)
(* later run starts, a run that has begun goes on.                         *)
(***************************************************************************)
\* closeStorage has called StopCompactRegion
Stopped == \E t \in Foreground : call[t].op = "close"

\* StopCompactRegion, and the entry of CloseFS
StopCompactRegion(t) ==
    /\ locks.mu = 0
    /\ Begin(t, "close", "a", 0, MaxMoveCalls, MaxMoveLog)

\* a compaction run is executing
GcRunning == pc[GCThread] # "idle"

NextShut ==
    \/ \E key \in Keys :
           NotStarted /\ Put(key, MaxMoveCalls + LogLen + 1, ImmortalTTL, MaxMoveLog)
    \/ \E key \in Keys :
           NotStarted /\ Delete(key, MaxMoveLog)
    \/ \E t \in Foreground : StopCompactRegion(t)
    \/ \E t \in Foreground : CloseLock(t)
    \/ \E t \in Foreground : CloseExport(t)
    \/ ~Stopped /\ GcBegin
    \/ GcScan
    \/ GcMove
    \/ \E dot \in BOOLEAN : GcRemove(dot)

SpecShut == InitPar /\ [][NextShut]_vars

\* C36: CloseFS does not hold lfs.mu for the flush of the regions, and has
\* not exported the index snapshot, while a compaction run is executing.
C36_CloseWaitsForCompaction ==
    ((\E t \in Foreground : pc[t] = "close_export") \/ session.ended = "close")
        => ~GcRunning

\* C37: when no call is in progress the active region is below the threshold:
\* every PutSegment, DeleteSegment, UpdateSegmentWithCAS and compaction copy
\* that took the offset to the threshold has switched to a new active region.
C37_ActiveRegionBelowThreshold ==
    running => offset < regionThreshold

\* goroutine t holds the write lock of shard sh during the step: it held it
\* before the step, or the step makes the imap.mu.Lock() call
WriteLocked(t, sh) ==
    \/ locks.imap[sh] = t
    \/ \E i \in (Len(local[t].lk) + 1)..Len(local'[t].lk) : local'[t].lk[i] = "imap"

\* the step writes the map of the shard of inum or a field of its inode
WritesInode(inum) ==
    \/ (inum \in DOMAIN index) # (inum \in DOMAIN index')
    \/ inum \in DOMAIN index /\ inum \in DOMAIN index' /\ index'[inum] # index[inum]

\* C38: every step of a foreground call or of the compaction run that writes
\* the map of a shard, or a field of an inode stored in it, is made by a
\* goroutine that holds the write lock of the shard.
C38_InodeWritesUnderShardLock ==
    [][~NotStarted =>
          \A k \in Keys :
              WritesInode(inodeNum(k)) =>
                  \E t \in Workers : WriteLocked(t, ShardOf(inodeNum(k)))]_vars

(***************************************************************************)
(* DeleteVariant (variants.go).  The per-name mutexes of the variant       *)
(* service are kept as those of the lease service are: a sync.Map, here    *)
(* vs.vlock, read with LoadOrStore at every Lock and Unlock.  The write of *)
(* the tombstone can fail (fd.Write in appendToActiveRegion); whether it   *)
(* does is an input.                                                       *)
(***************************************************************************)
\* DeleteVariant up to the mutex: ErrVariantNotFound unless HasSegment(name)
DeleteVariantTest(t, name) ==
    /\ running /\ pc[t] = "idle" /\ Outside(t) /\ LogLen < MaxVariantLog
    /\ call' = [call EXCEPT ![t] = [op |-> "delvariant", key |-> name, arg |-> 0, was |-> 0]]
    /\ IF ~HasSegment(Store, name, now)
       THEN Returned(t, "ErrVariantNotFound")
       ELSE pc' = [pc EXCEPT ![t] = "delvariant"] /\ ret' = [ret EXCEPT ![t] = "none"]
    /\ UNCHANGED <<diskVars, memVars, transformer, now, running, session, acked,
                   locks, grants, typeVars, goVars>>

\* DeleteVariant under the mutex: DeleteSegment; when it fails the call
\* returns the error, and the goroutine is out of the call
DeleteVariantBody(t, wrote) ==
    /\ running /\ pc[t] = "delvariant" /\ InSection(t)
    /\ IF wrote
       THEN /\ SetStore(DeleteSegment(Store, call[t].key, now))
            /\ Returned(t, "ok")
            /\ now' = now + 1
            /\ UNCHANGED local
       ELSE /\ Returned(t, "DeleteSegment")
            /\ local' = [local EXCEPT ![t] = NoLocal]
            /\ UNCHANGED <<files, dir, memVars, now>>
    /\ UNCHANGED <<indexdb, ckpts, transformer, running, session, acked, locks, call,
                   grants, typeVars, gen>>

NextVariant ==
    \/ \E key \in LeaseNames : Put(key, LogLen + 1, 1, MaxVariantLog)
    \/ \E t \in LeaseThreads, name \in LeaseNames : DeleteVariantTest(t, name)
    \/ \E t \in LeaseThreads : MutexLoad(t)
    \/ \E t \in LeaseThreads : MutexLock(t)
    \/ \E t \in LeaseThreads, wrote \in BOOLEAN : DeleteVariantBody(t, wrote)
    \/ \E t \in LeaseThreads : MutexUnlock(t)
    \/ \E t \in LeaseThreads : MutexDelete(t)

SpecVariant == InitPar /\ [][NextVariant]_vars

\* C39: every per-name mutex that is locked was locked by a goroutine that is
\* still inside the call that locked it: an operation that has returned, with
\* an error or without, has left no mutex held.
C39_NoMutexHeldAfterReturn ==
    \A m \in 1..MaxMutexes :
        locks.holder[m] # 0 => local[locks.holder[m]].mtx = m

(***************************************************************************)
(* The pipeline setters.  LogStructuredFS.SetCompressor and SetEncryptor   *)
(* act on the package variable transformer whenever they are called: they  *)
(* store the codec (and the secret) and set the flag.                      *)
(***************************************************************************)
SetCompressor ==
    /\ running
    /\ transformer' = transformer \cup {"compress"}
    /\ UNCHANGED <<diskVars, memVars, now, running, session, acked>>
    /\ UNCHANGED procVars

SetEncryptor ==
    /\ running
    /\ transformer' = transformer \cup {"encrypt"}
    /\ UNCHANGED <<diskVars, memVars, now, running, session, acked>>
    /\ UNCHANGED procVars

NextPipe ==
    \/ \E key \in Keys, ttl \in TTLs : Put(key, LogLen + 1, ttl, MaxPipeLog)
    \/ \E key \in Keys : Fetch(key)
    \/ SetCompressor
    \/ SetEncryptor
    \/ Tick

SpecPipe == Init /\ [][NextPipe]_vars

\* the layers of a value encoded under the configuration
EncodedAs(flags) == Encode(flags, Plain(0)).layers

\* C40: every value in the log was encoded with the configuration in force:
\* the pipeline configuration has not changed since the first put.
C40_PipelineFixedAfterFirstPut ==
    \A rid \in dir : \A i \in 1..Len(files[rid].recs) :
        ~IsTombstone(files[rid].recs[i].seg)
            => files[rid].recs[i].seg.Value.layers = EncodedAs(transformer)

====
